---------------------------- MODULE Spec2Model ----------------------------
(***************************************************************************)
(* A model of the Transcriber presentation layer (src/app.py) and of its   *)
(* LLM qualification layer (src/llm_openai.py).                            *)
(*                                                                         *)
(* SpecLLM   one call of qualify(): the two passes, the content retry      *)
(*           loop of _invoke_with_retry and the transport retry loop of    *)
(*           _invoke, one action per call of the chat API.                 *)
(* Spec      the engine lifecycle of app.py: the UI poll handlers          *)
(*           (_interval_update), the configuration apply handler, the      *)
(*           idle checker thread and the passing of time, one action per   *)
(*           access to the state the threads share.                        *)
(* SpecPoll  Spec with one poll handler and the idle checker only.         *)
(* SpecRace  two poll handlers at once and the idle checker.               *)
(* SpecApply the apply handler with its failures, beside one poll handler. *)
(* The other specifications follow one handler or one function each:       *)
(* playback (SpecPlay, SpecPlayPoll), _merge_sentences (SpecMerge), the    *)
(* rename action (SpecPersons), startup (SpecStart), _output_text          *)
(* (SpecRender), _num_tokens_from_messages (SpecTokens), pass 1 of         *)
(* qualify() on chunks of speakers that share names (SpecCorrect),         *)
(* _merge_sentences on its own output (SpecRemerge), and _resolve_person   *)
(* on the texts of _get_person and on other texts (SpecSelector).          *)
(***************************************************************************)
EXTENDS Integers, Sequences, FiniteSets, TLC

VARIABLES
    \* ---- llm_openai.qualify() ----
    sentences,      \* the argument of qualify(): a list of Sentence
    qpc,            \* where the call of qualify() stands
    pass,           \* 1: correction, 2: summarization, 0: not started
    messages,       \* the messages of the request under way
    post_process,   \* the validator of the request: "none", "names", "points"
    attempt,        \* iteration of `for _ in range(3)` in _invoke_with_retry
    try_count,      \* try_count of the _invoke call under way
    r0,             \* the last raw response text
    corrected,      \* what pass 1 returned
    result,         \* the QualifiedResult returned by qualify()
    error,          \* the exception qualify() propagated
    api_calls,      \* calls of openai.ChatCompletion.create, in all
    req_calls,      \* ... within the _invoke_with_retry call under way
    slept,          \* seconds of time.sleep within the _invoke call under way
    slept_total,    \* seconds of time.sleep, in all
    failures,       \* transport failures answered so far, in all
    auth_at,        \* api_calls at the authentication error, 0 when none
    finish_reason,  \* the finish reason of the last completion, "" when none
    \* ---- app.py ----
    pc,             \* where each thread stands
    lock,           \* the holder of _app_lock0
    _app,           \* the current engine (a main.Application instance)
    engines,        \* the state of each engine instance
    _conf,          \* the cached snapshot of the engine's configuration
    _ui_conf,       \* the UiConfiguration
    _last_called,   \* the last-activity timestamp
    now,            \* time.time(), in seconds
    wake,           \* when the time.sleep(5.0) of _live_checker ends
    conf,           \* the argument of the _restart call each handler makes
    ui_conf,        \* the local ui_conf of _apply_configuration
    f_conf_apply,   \* whether the apply button is interactive
    apply_steps,    \* what the apply under way has done so far
    config_pickle,  \* the content of config.pickle
    ui_config_pickle,
    \* ---- app.py: playback ----
    pb_queue,       \* the work queue of _playback_audio_executor
    pb_submitted,   \* calls of _playback_audio so far
    pb_pc,          \* where each worker of the executor stands
    pb_task,        \* the request each worker executes
    app,            \* the local `app` of each _playback_audio_task
    pb_started,     \* the requests taken from the queue, in order
    \* ---- app.py: _merge_sentences ----
    m_sentences,    \* the argument `sentences`: the engine's stored sentences
    m_input,        \* the stored sentences as they were before the first call
    ret,            \* the list `ret`; each entry tells which object it is
    m_i,            \* the position of the for loop in `sentences`
    m_round,        \* the calls of _merge_sentences on this list so far
    \* ---- app.py: the rename action ----
    persons,            \* the engine's person registry, by person_id
    rename_log,         \* the calls _app.rename(person_id, name) made
    rn_calls,           \* the calls of _rename_person_name so far
    f_person_selector,  \* the arguments of the last call
    f_person_new_name,
    resolved,       \* what the last call of _resolve_person returned
    \* ---- app.py: startup ----
    boot,           \* how far the start of the program has come
    \* ---- app.py: _output_text ----
    reader,         \* the groups (chunks) of the argument `reader`
    include_anker,  \* the argument include_anker
    rows,           \* the table rows appended to `text` so far
    index,          \* the position of the for loop, from 0
    \* ---- llm_openai.py: _num_tokens_from_messages ----
    tk_messages,    \* the argument `messages`
    tk_model,       \* the argument `model`
    tk_out,         \* what the call gave: a count or NotImplementedError
    \* ---- the openai module ----
    api_key         \* openai.api_key, the credential of the LLM client

llm_vars == <<sentences, qpc, pass, messages, post_process, attempt, try_count,
              r0, corrected, result, error, api_calls, req_calls, slept,
              slept_total, failures, auth_at, finish_reason>>

tk_vars == <<tk_messages, tk_model, tk_out>>

app_vars == <<pc, lock, _app, engines, _conf, _ui_conf, _last_called, now,
              wake, conf, ui_conf, f_conf_apply, apply_steps, config_pickle,
              ui_config_pickle>>

play_vars == <<pb_queue, pb_submitted, pb_pc, pb_task, app, pb_started>>

\* the state of the handlers that share nothing with the engine lifecycle
merge_vars == <<m_sentences, m_input, ret, m_i, m_round>>

person_vars == <<persons, rename_log, rn_calls, f_person_selector,
                 f_person_new_name, resolved>>

render_vars == <<reader, include_anker, rows, index>>

aux_vars ==
    <<play_vars, merge_vars, person_vars, boot, render_vars, tk_vars, api_key>>

vars == <<llm_vars, app_vars, aux_vars>>

-----------------------------------------------------------------------------
(* Program constants of llm_openai.py *)

TokenLimit == 3096
MaxTries == 3
MaxAttempts == 3
RetrySleep == 10
ReplyPriming == 3

\* t.unknown_person_name (main_types)
UnknownPersonName == "unknown"

\* i18n.t('app.qualify_llm_authentication_error')
AuthErrorText == "app.qualify_llm_authentication_error"

\* the placeholder of line 320
NoSummary == "(nashi)"

-----------------------------------------------------------------------------
(* Texts.  A text is a sequence of lines; a line <<k, v>> with k # "" reads *)
(* "k: v", a line <<"", v>> is a line v without ": ".  Values are not empty *)
(* and hold neither a newline nor ": ".                                    *)

Seg(k, v) == <<k, v>>

RECURSIVE SumSeq(_)
SumSeq(s) == IF s = <<>> THEN 0 ELSE Head(s) + SumSeq(Tail(s))

\* re.findall(r"<key>: (.+)\n*", text): the values of the lines "<key>: v"
FindallKey(key, text) ==
    LET hits == SelectSeq(text, LAMBDA l : l[1] = key)
    IN  [i \in 1..Len(hits) |-> hits[i][2]]

\* re.findall(r"([^:]+): (.+)\n*", text): [^:]+ runs over newlines, so the
\* lines without ": " that precede a "k: v" line are part of its first group
RECURSIVE FindallNameText(_, _)
FindallNameText(text, pending) ==
    IF text = <<>> THEN <<>>
    ELSE LET l == Head(text) IN
         IF l[1] = ""
         THEN FindallNameText(Tail(text), pending \o l[2] \o "\n")
         ELSE << <<pending \o l[1], l[2]>> >> \o FindallNameText(Tail(text), "")

-----------------------------------------------------------------------------
(* Sentences (main_types.Sentence, the fields qualify() reads) *)

Sentence(tm0, tm1, text, name, id, emb) ==
    [tm0 |-> tm0, tm1 |-> tm1, text |-> text, person_name |-> name,
     person_id |-> id, embedding |-> emb]

SentenceLists ==
    { <<>>,
      << Sentence(1, 2, "er hello", "", -1, FALSE) >>,
      << Sentence(1, 2, "er hello", "", -1, FALSE),
         Sentence(3, 5, "good bye", "", -1, FALSE) >>,
      << Sentence(1, 2, "er hello", "Alice", 7, TRUE),
         Sentence(3, 5, "good bye", "Bob", -1, TRUE),
         Sentence(6, 8, "see you", "Alice", 7, FALSE) >> }

\* what the chat API may answer
Responses ==
    { <<>>,
      << Seg("", "hello") >>,
      << Seg("point", "s1") >>,
      << Seg("point", "none") >>,
      << Seg("point", "s1"), Seg("point", "s2") >>,
      << Seg("point", "s1"), Seg("action item", "a1"), Seg("action item", "none") >>,
      << Seg("Alice", "hello"), Seg("", "well"), Seg("Carol", "bye") >> }

FinishReasons == {"stop", "length"}

\* token lengths the tokenizer may give the system prompt and the user text
PromptTokens == {90}
UserTokens == {7, 2995, 2996}

_get_name(s) == IF s.person_id # -1 THEN s.person_name ELSE UnknownPersonName

has_embedding(ss) == \E i \in 1..Len(ss) : ss[i].embedding

-----------------------------------------------------------------------------
(* Token accounting *)

\* a message maps each key to its value v.s and to len(encoding.encode(v.s))
Message(role, content, ntok) ==
    [role |-> [s |-> role, n |-> 1], content |-> [s |-> content, n |-> ntok]]

\* a model name is the sequence of its characters
default_model_name == <<"g", "p", "t", "-", "4", "-", "0", "6", "1", "3">>

gpt_35_turbo_0613 == <<"g", "p", "t", "-", "3", ".", "5", "-", "t", "u", "r", "b", "o", "-", "0", "6", "1", "3">>

gpt_4_0613 == <<"g", "p", "t", "-", "4", "-", "0", "6", "1", "3">>

gpt_35_turbo_0301 == <<"g", "p", "t", "-", "3", ".", "5", "-", "t", "u", "r", "b", "o", "-", "0", "3", "0", "1">>

\* the set of line 29
ModernModels ==
    { <<"g", "p", "t", "-", "3", ".", "5", "-", "t", "u", "r", "b", "o", "-", "0", "6", "1", "3">>,
      <<"g", "p", "t", "-", "3", ".", "5", "-", "t", "u", "r", "b", "o", "-", "1", "6", "k", "-", "0", "6", "1", "3">>,
      <<"g", "p", "t", "-", "4", "-", "0", "3", "1", "4">>,
      <<"g", "p", "t", "-", "4", "-", "3", "2", "k", "-", "0", "3", "1", "4">>,
      <<"g", "p", "t", "-", "4", "-", "0", "6", "1", "3">>,
      <<"g", "p", "t", "-", "4", "-", "3", "2", "k", "-", "0", "6", "1", "3">> }

\* `sub in model`, lines 42 and 46
Contains(sub, model) ==
    \E i \in 1..(Len(model) - Len(sub) + 1) :
        SubSeq(model, i, i + Len(sub) - 1) = sub

RECURSIVE SumKeys(_, _, _)
SumKeys(m, keys, tokens_per_name) ==
    IF keys = {} THEN 0
    ELSE LET k == CHOOSE x \in keys : TRUE IN
         m[k].n + (IF k = "name" THEN tokens_per_name ELSE 0)
             + SumKeys(m, keys \ {k}, tokens_per_name)

\* variant: a count without the priming of the reply
CountUnprimed(msgs, tokens_per_message, tokens_per_name) ==
    SumSeq([i \in 1..Len(msgs) |->
        tokens_per_message + SumKeys(msgs[i], DOMAIN msgs[i], tokens_per_name)])

\* the loop of lines 53-60
CountTokens(msgs, tokens_per_message, tokens_per_name) ==
    SumSeq([i \in 1..Len(msgs) |->
        tokens_per_message + SumKeys(msgs[i], DOMAIN msgs[i], tokens_per_name)])
    + ReplyPriming

\* raise NotImplementedError, line 50
NotImplemented == [ok |-> FALSE, n |-> 0]

Counted(n) == [ok |-> TRUE, n |-> n]

\* _num_tokens_from_messages(messages, model), lines 19-61
RECURSIVE _num_tokens_from_messages(_, _)
_num_tokens_from_messages(msgs, model) ==
    IF model \in ModernModels THEN Counted(CountTokens(msgs, 3, 1))
    ELSE IF model = gpt_35_turbo_0301 THEN Counted(CountTokens(msgs, 4, -1))
    ELSE IF Contains(<<"g", "p", "t", "-", "3", ".", "5", "-", "t", "u", "r", "b", "o">>, model)
    THEN _num_tokens_from_messages(msgs, gpt_35_turbo_0613)
    ELSE IF Contains(<<"g", "p", "t", "-", "4">>, model)
    THEN _num_tokens_from_messages(msgs, gpt_4_0613)
    ELSE NotImplemented

\* variant: a limit that refuses a request of exactly TokenLimit tokens
OverLimitOff(msgs) ==
    _num_tokens_from_messages(msgs, default_model_name).n >= TokenLimit

\* _check_token_limits raises, line 69; the QualifyOptions name the default
\* model for both steps (lines 123-124)
OverLimit(msgs) ==
    _num_tokens_from_messages(msgs, default_model_name).n > TokenLimit

\* the messages one call of _num_tokens_from_messages may be given, at most
MaxMessages == 2

\* the model names followed: listed ones, names that hold "gpt-3.5-turbo" or
\* "gpt-4", and names that hold neither
TokenModels ==
    { <<"g", "p", "t", "-", "4", "-", "0", "6", "1", "3">>,
      <<"g", "p", "t", "-", "3", ".", "5", "-", "t", "u", "r", "b", "o", "-", "1", "6", "k", "-", "0", "6", "1", "3">>,
      <<"g", "p", "t", "-", "4", "-", "3", "2", "k", "-", "0", "3", "1", "4">>,
      <<"g", "p", "t", "-", "3", ".", "5", "-", "t", "u", "r", "b", "o", "-", "0", "3", "0", "1">>,
      <<"g", "p", "t", "-", "3", ".", "5", "-", "t", "u", "r", "b", "o">>,
      <<"g", "p", "t", "-", "3", ".", "5", "-", "t", "u", "r", "b", "o", "-", "0", "3", "0", "1", "-", "x">>,
      <<"g", "p", "t", "-", "4">>,
      <<"g", "p", "t", "-", "4", "o">>,
      <<"g", "p", "t", "-", "3", ".", "5">>,
      <<"t", "e", "x", "t", "-", "d", "a", "v", "i", "n", "c", "i", "-", "0", "0", "3">>,
      <<"l", "l", "a", "m", "a", "-", "g", "p", "t", "-", "4">>,
      <<>> }

\* the lengths the tokenizer gives a role, a content and a name
RoleTokens == {1, 2}
ContentTokens == {0, 5}
NameTokens == {1, 2}

Field(ntok) == [s |-> "text", n |-> ntok]

\* {"role": ..., "content": ...} and {"role": ..., "content": ..., "name": ...}
TokenMessages ==
    { [role |-> Field(r), content |-> Field(c)] :
        r \in RoleTokens, c \in ContentTokens }
    \cup
    { [role |-> Field(r), content |-> Field(c), name |-> Field(k)] :
        r \in RoleTokens, c \in ContentTokens, k \in NameTokens }

TokenMessageLists(n) ==
    UNION { [1..k -> TokenMessages] : k \in 0..n }

NotCalled == [done |-> FALSE, ok |-> FALSE, n |-> 0]

\* the state at a call _num_tokens_from_messages(msgs, model)
TokensCalled(msgs, model) ==
    /\ tk_messages = msgs
    /\ tk_model = model
    /\ tk_out = NotCalled

\* the call returns its count or raises
NumTokensReturn ==
    /\ ~tk_out.done
    /\ LET r == _num_tokens_from_messages(tk_messages, tk_model)
       IN  tk_out' = [done |-> TRUE, ok |-> r.ok, n |-> r.n]
    /\ UNCHANGED <<tk_messages, tk_model>>
    /\ UNCHANGED <<llm_vars, app_vars, play_vars, merge_vars, person_vars,
                   boot, render_vars,
                   api_key>>

-----------------------------------------------------------------------------
(* Values of the qualify() model *)

NoError == [type |-> "", what |-> "", messages |-> <<>>, last |-> <<>>]

Exception(type, what, msgs, last) ==
    [type |-> type, what |-> what, messages |-> msgs, last |-> last]

NoResult ==
    [set |-> FALSE, corrected_sentences |-> <<>>, summaries |-> "",
     action_items |-> <<>>]

\* t.QualifiedResult(corrected_sentences=, summaries=, action_items=)
QualifiedResult(cs, summaries, action_items) ==
    [set |-> TRUE, corrected_sentences |-> cs, summaries |-> summaries,
     action_items |-> action_items]

\* the system prompts, each one line of text
_qualify_p0_system(with_embeddings) ==
    IF with_embeddings THEN << Seg("", "qualify_p0_template_with_embeddings") >>
    ELSE << Seg("", "qualify_p0_template_no_embeddings") >>

_qualify_p1_system == << Seg("", "qualify_p1_template") >>

\* "\n".join([_get_name(s) + ": " + s.text ... for s in sentences])
NameTextLines(ss) == [i \in 1..Len(ss) |-> Seg(_get_name(ss[i]), ss[i].text)]

\* " ".join([s.text for s in sentences]): the texts, as one line each
JoinedTexts(ss) == [i \in 1..Len(ss) |-> Seg("", ss[i].text)]

\* variant: a mapping built from every sentence, the unknown speakers included
NameToIdUnfiltered(ss, name) ==
    LET named == {i \in 1..Len(ss) : _get_name(ss[i]) = name}
    IN  IF named = {} THEN -1
        ELSE ss[CHOOSE i \in named : \A j \in named : j <= i].person_id

\* name_to_id of line 292: a later sentence of the same name overrides
name_to_id(ss, name) ==
    LET known == {i \in 1..Len(ss) : ss[i].person_id # -1 /\ _get_name(ss[i]) = name}
    IN  IF known = {} THEN -1
        ELSE ss[CHOOSE i \in known : \A j \in known : j <= i].person_id

\* lines 300-302: the sentences built from the parsed lines
CorrectedSentences(ss, r1) ==
    [i \in 1..Len(r1) |->
        Sentence(ss[1].tm0, ss[Len(ss)].tm1, r1[i][2], r1[i][1],
                 name_to_id(ss, r1[i][1]), FALSE)]

\* _post_process of _correct_sentences_with_embeddings: (processed, r1_)
NamesPostProcess(text) ==
    LET r1_ == FindallNameText(text, "")
    IN  [ok |-> Len(r1_) # 0, val |-> r1_]

\* variant: a validator that takes the first of several point lines
PointsAtLeastOne(text) ==
    LET r1_ == FindallKey("point", text)
        r2_ == FindallKey("action item", text)
    IN  IF Len(r1_) = 0
        THEN [ok |-> FALSE, val |-> <<>>]
        ELSE [ok |-> TRUE,
              val |-> << <<IF r1_[1] = "none" THEN NoSummary ELSE r1_[1]>>,
                         SelectSeq(r2_, LAMBDA e_ : e_ # "none") >>]

\* _post_process of _summarize_sub: (processed, (r1_, r2_))
PointsPostProcess(text) ==
    LET r1_ == FindallKey("point", text)
        r2_ == FindallKey("action item", text)
    IN  IF Len(r1_) # 1
        THEN [ok |-> FALSE, val |-> <<>>]
        ELSE [ok |-> TRUE,
              val |-> << <<IF r1_[1] = "none" THEN NoSummary ELSE r1_[1]>>,
                         SelectSeq(r2_, LAMBDA e_ : e_ # "none") >>]

\* variant: a transport loop that allows one attempt more
RetryOnceMore(tc) == tc <= MaxTries

\* the transport loop of _invoke goes on after a failure (line 89)
RetryTransport(tc) == tc < MaxTries

\* variant: a content loop that allows one response more
AttemptOnceMore(att) == att <= MaxAttempts

\* the content loop of _invoke_with_retry goes on (line 104)
RetryContent(att) == att < MaxAttempts

\* variant: a fallback that returns what pass 1 had corrected
FallbackCorrected(ss, corr) ==
    QualifiedResult(corr, AuthErrorText, <<>>)

\* the except clause of qualify(), lines 350-355
AuthFallback(ss, corr) ==
    QualifiedResult(ss, AuthErrorText, <<>>)

\* variant: a result that surfaces what pass 1 corrected
SurfacedResult(ss, corr, summaries, action_items) ==
    QualifiedResult(IF corr = <<>> THEN ss ELSE corr, summaries, action_items)

\* the return of qualify(), lines 357-361: corrected_sentences=sentences
NormalResult(ss, corr, summaries, action_items) ==
    QualifiedResult(ss, summaries, action_items)

-----------------------------------------------------------------------------
(* qualify(): Init and the steps *)

\* the state at a call of qualify(ss)
QualifyCalled(ss) ==
    /\ sentences = ss
    /\ qpc = "start"
    /\ pass = 0
    /\ messages = <<>>
    /\ post_process = "none"
    /\ attempt = 0
    /\ try_count = 0
    /\ r0 = <<>>
    /\ corrected = [is_list |-> FALSE, val |-> <<>>]
    /\ result = NoResult
    /\ error = NoError
    /\ api_calls = 0
    /\ req_calls = 0
    /\ slept = 0
    /\ slept_total = 0
    /\ failures = 0
    /\ auth_at = 0
    /\ finish_reason = ""

\* variant: an exception that is swallowed, the call returning nothing
RaiseSwallowed(e) ==
    /\ qpc' = "returned"
    /\ error' = NoError

\* an exception other than AuthenticationError leaves qualify()
Raise(e) ==
    /\ qpc' = "raised"
    /\ error' = e

\* _invoke_with_retry(messages, model_name, post_process) up to its first
\* call of _invoke: the token check, once
StartRequest(p, msgs, pp) ==
    /\ pass' = p
    /\ messages' = msgs
    /\ post_process' = pp
    /\ req_calls' = 0
    /\ try_count' = 0
    /\ slept' = 0
    /\ IF OverLimit(msgs)
       THEN /\ Raise(Exception("RuntimeError", "limit", msgs, <<>>))
            /\ attempt' = 0
       ELSE /\ qpc' = "invoke"
            /\ attempt' = 1
            /\ error' = error

\* qualify() up to the first API call of pass 1
BeginPass1 ==
    /\ qpc = "start"
    /\ IF Len(sentences) = 0
       THEN /\ corrected' = [is_list |-> FALSE, val |-> <<>>]
            /\ qpc' = "pass2"
            /\ pass' = 1
            /\ UNCHANGED <<messages, post_process, attempt, try_count, error,
                           req_calls, slept>>
       ELSE /\ \E ns \in PromptTokens, nu \in UserTokens :
                 IF has_embedding(sentences)
                 THEN StartRequest(1,
                        << Message("system", _qualify_p0_system(TRUE), ns),
                           Message("user", NameTextLines(sentences), nu) >>,
                        "names")
                 ELSE StartRequest(1,
                        << Message("system", _qualify_p0_system(FALSE), ns),
                           Message("user", JoinedTexts(sentences), nu) >>,
                        "none")
            /\ corrected' = corrected
    /\ UNCHANGED <<sentences, r0, result, api_calls, slept_total, failures,
                   auth_at>>
    /\ UNCHANGED <<finish_reason, app_vars, aux_vars>>

\* variant: a summarization that reads the original sentences
Pass2TextOriginal(corr) == NameTextLines(sentences)

\* the user text of _summarize_sub, lines 309-310: the string pass 1 gave, or
\* its sentences as "name: text" lines
Pass2Text(corr) ==
    IF corr.is_list THEN NameTextLines(corr.val) ELSE corr.val

\* variant: a summarization that asks the API whatever pass 1 gave
AlwaysSummarize(x) == FALSE

\* line 306: len(sentences) == 0, of a list of sentences or of a string
NothingToSummarize(x) == Len(x) = 0

\* _summarize(corrected, ...) up to the first API call of pass 2
BeginPass2 ==
    /\ qpc = "pass2"
    /\ IF NothingToSummarize(corrected.val)
       THEN /\ result' = NormalResult(sentences, corrected.val, "", <<>>)
            /\ qpc' = "returned"
            /\ pass' = 2
            /\ UNCHANGED <<messages, post_process, attempt, try_count, error,
                           req_calls, slept>>
       ELSE /\ \E ns \in PromptTokens, nu \in UserTokens :
                 StartRequest(2,
                    << Message("system", _qualify_p1_system, ns),
                       Message("user", Pass2Text(corrected), nu) >>,
                    "points")
            /\ result' = result
    /\ UNCHANGED <<sentences, r0, corrected, api_calls, slept_total, failures,
                   auth_at>>
    /\ UNCHANGED <<finish_reason, app_vars, aux_vars>>

\* openai.ChatCompletion.create raises AuthenticationError: _invoke re-raises,
\* _invoke_with_retry lets it through, qualify() catches it
ApiAuthError ==
    /\ qpc = "invoke"
    /\ try_count' = try_count + 1
    /\ api_calls' = api_calls + 1
    /\ req_calls' = req_calls + 1
    /\ auth_at' = api_calls + 1
    /\ result' = AuthFallback(sentences, corrected.val)
    /\ qpc' = "returned"
    /\ UNCHANGED <<sentences, pass, messages, post_process, attempt, r0,
                   corrected, error, slept, slept_total, failures>>
    /\ UNCHANGED <<finish_reason, app_vars, aux_vars>>

\* ... raises urllib.error.HTTPError or another openai.OpenAIError
ApiTransportError(type) ==
    /\ qpc = "invoke"
    /\ try_count' = try_count + 1
    /\ api_calls' = api_calls + 1
    /\ req_calls' = req_calls + 1
    /\ failures' = failures + 1
    /\ IF RetryTransport(try_count + 1)
       THEN qpc' = "sleep" /\ error' = error
       ELSE Raise(Exception(type, "transport", <<>>, <<>>))
    /\ UNCHANGED <<sentences, pass, messages, post_process, attempt, r0,
                   corrected, result, slept, slept_total, auth_at>>
    /\ UNCHANGED <<finish_reason, app_vars, aux_vars>>

\* time.sleep(10); continue
Sleep ==
    /\ qpc = "sleep"
    /\ slept' = slept + RetrySleep
    /\ slept_total' = slept_total + RetrySleep
    /\ qpc' = "invoke"
    /\ UNCHANGED <<sentences, pass, messages, post_process, attempt, try_count,
                   r0, corrected, result, error, api_calls, req_calls,
                   failures, auth_at>>
    /\ UNCHANGED <<finish_reason, app_vars, aux_vars>>

\* the response did not validate: the next iteration of the for loop, or its
\* else clause
NextAttempt(resp) ==
    IF RetryContent(attempt)
    THEN /\ attempt' = attempt + 1
         /\ try_count' = 0
         /\ slept' = 0
         /\ qpc' = "invoke"
         /\ UNCHANGED <<error, corrected, result>>
    ELSE /\ Raise(Exception("RuntimeError", "invalid", messages, resp))
         /\ try_count' = try_count + 1
         /\ UNCHANGED <<attempt, slept, corrected, result>>

\* variant: a completion that did not finish with "stop" counts as a response
\* that did not validate
FinishAsInvalid(resp) == NextAttempt(resp)

\* lines 94-96: RuntimeError, raised outside the try of _invoke; neither
\* _invoke_with_retry nor qualify() catches it
FinishError(resp) ==
    /\ Raise(Exception("RuntimeError", "finish", <<>>, <<>>))
    /\ try_count' = try_count + 1
    /\ UNCHANGED <<attempt, slept, corrected, result>>

\* ... returns a completion
ApiReturn(resp, reason) ==
    /\ qpc = "invoke"
    /\ api_calls' = api_calls + 1
    /\ req_calls' = req_calls + 1
    /\ finish_reason' = reason
    /\ IF reason # "stop"
       THEN /\ FinishError(resp)
            /\ r0' = r0
       ELSE /\ r0' = resp
            /\ CASE post_process = "none" ->
                      /\ corrected' = [is_list |-> FALSE, val |-> resp]
                      /\ qpc' = "pass2"
                      /\ try_count' = try_count + 1
                      /\ UNCHANGED <<attempt, slept, error, result>>
                 [] post_process = "names" ->
                      LET p == NamesPostProcess(resp) IN
                      IF p.ok
                      THEN /\ corrected' =
                                [is_list |-> TRUE,
                                 val |-> CorrectedSentences(sentences, p.val)]
                           /\ qpc' = "pass2"
                           /\ try_count' = try_count + 1
                           /\ UNCHANGED <<attempt, slept, error, result>>
                      ELSE NextAttempt(resp)
                 [] post_process = "points" ->
                      LET p == PointsPostProcess(resp) IN
                      IF p.ok
                      THEN /\ result' = NormalResult(sentences, corrected.val,
                                                     p.val[1][1], p.val[2])
                           /\ qpc' = "returned"
                           /\ try_count' = try_count + 1
                           /\ UNCHANGED <<attempt, slept, error, corrected>>
                      ELSE NextAttempt(resp)
    /\ UNCHANGED <<sentences, pass, messages, post_process, slept_total,
                   failures, auth_at>>
    /\ UNCHANGED <<app_vars, aux_vars>>


-----------------------------------------------------------------------------
(* app.py: threads, engines, configurations *)

Pollers == {"p1", "p2"}
Handlers == Pollers \cup {"apply"}
Threads == Handlers \cup {"checker"}
NoThread == "none"

EngineIds == {"e1", "e2", "e3"}

\* the Configurations and UiConfigurations the apply form may build
Confs == {"c1", "c2"}
UiConfs == {"u1"}
\* main.Configuration() and UiConfiguration(), the all-defaults records
DefaultConf == "default"
DefaultUiConf == "ui_default"
NoFile == "no file"
NoConf == "none"

\* the check interval and the staleness bound of _live_checker
CheckInterval == 5
StaleAfter == 5

\* the last second the model lets the clock reach
MaxTime == 27

\* time.time() when app_main starts; _last_called = 0.0 is long past
StartTime == CheckInterval + StaleAfter + 1

\* what the apply handler has done, in the order of the code
ApplyOrder ==
    <<"disable", "build", "restart", "config.pickle", "ui_config.pickle",
      "enable">>

\* concurrent.futures.ThreadPoolExecutor(max_workers=1), line 42
max_workers == 1

\* variant: an executor of two workers
TwoWorkers == 1..2

Workers == 1..max_workers

\* the calls of _playback_audio the model follows
MaxPlay == 2

\* a request whose files all open and play, one with a file that does not
\* open, one whose sd.play raises
PlayKinds == {"ok", "bad file", "play error"}

NoTask == [id |-> 0, kind |-> "none"]

\* a local `app` that is not bound
NoEngineRef == "none"

-----------------------------------------------------------------------------
(* main.Application, from its contract: is_opened/open/close,               *)
(* get_current_configuration, log_file_may_changed                          *)

NoEngine ==
    [opened |-> FALSE, conf |-> NoConf, suppress |-> 0, lock_calls |-> 0,
     unlock_calls |-> 0]

\* main.Application(conf, language): a closed engine, its audio not suppressed
NewEngine(c) ==
    [opened |-> FALSE, conf |-> c, suppress |-> 0, lock_calls |-> 0,
     unlock_calls |-> 0]

is_opened(e) == engines[e].opened

EngineOpen(e) == [engines EXCEPT ![e].opened = TRUE]

EngineClose(e) == [engines EXCEPT ![e].opened = FALSE]

\* the effective (validated, defaulted) form of a requested Configuration
Effective(c) == <<"effective", c>>

get_current_configuration(e) == Effective(engines[e].conf)

\* whether the engine's log changed outside the process: either answer
LogFileMayChanged == BOOLEAN

\* suppress_audio_lock(): the live audio handling pauses; calls nest
EngineSuppressLock(e) ==
    [engines EXCEPT ![e].suppress = @ + 1, ![e].lock_calls = @ + 1]

\* suppress_audio_unlock()
EngineSuppressUnlock(e) ==
    [engines EXCEPT ![e].suppress = IF @ > 0 THEN @ - 1 ELSE 0,
                    ![e].unlock_calls = @ + 1]

\* the engine captures: it is open and its audio handling is not suppressed
Capturing(e) == engines[e].opened /\ engines[e].suppress = 0

\* the global _app or the local `app` of a playback task refers to e
Referenced(e) == e = _app \/ \E w \in Workers : app[w] = e

\* an instance nobody refers to and that holds no device is collected
FreeIds == {e \in EngineIds : ~Referenced(e) /\ ~engines[e].opened}

-----------------------------------------------------------------------------
(* app.py: helpers *)

\* the field openai_api_key of a UiConfiguration: "" in the all-defaults
\* record (line 33), the key entered on the configuration screen otherwise
openai_api_key(u) == IF u = "u1" THEN "sk-u1" ELSE ""

\* openai.api_key when nothing has set it
NoKey == ""

\* lines 865-866: a stored key, when there is one, becomes the credential
ConfigureKey(u, key) ==
    IF openai_api_key(u) # "" THEN openai_api_key(u) ELSE key

\* _load_configuration(), lines 600-607
_load_configuration ==
    IF config_pickle = NoFile THEN DefaultConf ELSE config_pickle

\* _load_ui_configuration(), lines 610-617
_load_ui_configuration ==
    IF ui_config_pickle = NoFile THEN DefaultUiConf ELSE ui_config_pickle

\* variant: a lock that never blocks
NoLock(t) == TRUE

\* `with _app_lock0:` may be entered
CanAcquire(t) == lock = NoThread

\* variant: a staleness bound twice as long
IdleTestLate == is_opened(_app) /\ _last_called + 2 * StaleAfter < now

\* the test of _live_checker, line 59
IdleTest == is_opened(_app) /\ _last_called + StaleAfter < now

\* the test of _keep_alive, line 49
MustOpen == ~is_opened(_app)

\* variant: a restart that leaves the engine it replaces as it is
CloseNothing(e) == engines

\* _restart closes the engine it replaces, lines 70-71
CloseIfOpened(e) == IF is_opened(e) THEN EngineClose(e) ELSE engines

\* the thread is inside `with _app_lock0:`
InLifecycle(t) == pc[t] \in {"r2", "r3", "k3", "c3"}

AfterRestart(t) == IF t = "apply" THEN "w1" ELSE "k1"

\* variant: an apply that goes on to the writes without the restart
PersistFirst == "w1"

\* what _apply_configuration does once conf is built: _restart(conf), line 591
AfterBuild == "r1"

Step(t, to) == pc' = [pc EXCEPT ![t] = to]

-----------------------------------------------------------------------------
(* app.py: the state after app_main has started the checker thread *)

InitApp ==
    /\ \E files \in {<<NoFile, NoFile>>, <<"c1", "u1">>} :
          /\ config_pickle = files[1]
          /\ ui_config_pickle = files[2]
    /\ _ui_conf = _load_ui_configuration
    /\ _app = "e1"
    /\ engines = [e \in EngineIds |->
                    IF e = "e1" THEN NewEngine(_load_configuration) ELSE NoEngine]
    /\ _conf = Effective(_load_configuration)
    /\ _last_called = 0
    /\ now = StartTime
    /\ wake = StartTime + CheckInterval
    /\ pc = [t \in Threads |-> IF t = "checker" THEN "sleep" ELSE "idle"]
    /\ lock = NoThread
    /\ conf = [t \in Handlers |-> NoConf]
    /\ ui_conf = NoConf
    /\ f_conf_apply = TRUE
    /\ apply_steps = ApplyOrder
    /\ api_key = ConfigureKey(_ui_conf, NoKey)

-----------------------------------------------------------------------------
(* _restart(conf), lines 66-74, called by a poll or by the apply handler *)

\* the lock is taken and the current engine closed if it is open
RestartClose(t) ==
    /\ pc[t] = "r1"
    /\ CanAcquire(t)
    /\ lock' = t
    /\ engines' = CloseIfOpened(_app)
    /\ Step(t, "r2")
    /\ UNCHANGED <<_app, _conf, _ui_conf, _last_called, now, wake, conf,
                   ui_conf, f_conf_apply, apply_steps, config_pickle,
                   ui_config_pickle>>
    /\ UNCHANGED <<llm_vars, aux_vars>>

\* _app = main.Application(conf, _ui_conf.language): the instance replaced
\* is collected unless it still holds the devices
RestartConstruct(t) ==
    /\ pc[t] = "r2"
    /\ FreeIds # {}
    /\ LET new == CHOOSE e \in FreeIds : TRUE IN
          /\ _app' = new
          /\ engines' = [e \in EngineIds |->
                IF e = new THEN NewEngine(conf[t])
                ELSE IF e = _app /\ ~is_opened(e)
                        /\ \A w \in Workers : app[w] # e THEN NoEngine
                ELSE engines[e]]
    /\ Step(t, "r3")
    /\ UNCHANGED <<lock, _conf, _ui_conf, _last_called, now, wake, conf,
                   ui_conf, f_conf_apply, apply_steps, config_pickle,
                   ui_config_pickle>>
    /\ UNCHANGED <<llm_vars, aux_vars>>

\* _conf = _app.get_current_configuration(), and the lock is released
RestartReread(t) ==
    /\ pc[t] = "r3"
    /\ _conf' = get_current_configuration(_app)
    /\ lock' = NoThread
    /\ Step(t, AfterRestart(t))
    /\ apply_steps' = IF t = "apply" THEN Append(apply_steps, "restart")
                      ELSE apply_steps
    /\ conf' = IF t = "apply" THEN conf ELSE [conf EXCEPT ![t] = NoConf]
    /\ UNCHANGED <<_app, engines, _ui_conf, _last_called, now, wake,
                   ui_conf, f_conf_apply, config_pickle, ui_config_pickle>>
    /\ UNCHANGED <<llm_vars, aux_vars>>

-----------------------------------------------------------------------------
(* _interval_update(), lines 354-372, and _keep_alive(), lines 45-53 *)

\* a poll arrives: log_file_may_changed() is asked and, if it says so, the
\* configuration is loaded for the restart
PollBegin(p) ==
    /\ pc[p] = "idle"
    /\ \E changed \in LogFileMayChanged :
          IF changed
          THEN /\ conf' = [conf EXCEPT ![p] = _load_configuration]
               /\ Step(p, "r1")
          ELSE /\ conf' = conf
               /\ Step(p, "k1")
    /\ UNCHANGED <<lock, _app, engines, _conf, _ui_conf, _last_called, now,
                   wake, ui_conf, f_conf_apply, apply_steps, config_pickle,
                   ui_config_pickle>>
    /\ UNCHANGED <<llm_vars, aux_vars>>

\* _last_called = time.time(); if not _app.is_opened(): ...
KeepAliveMark(p) ==
    /\ pc[p] = "k1"
    /\ _last_called' = now
    /\ Step(p, IF MustOpen THEN "k2" ELSE "ret")
    /\ UNCHANGED <<lock, _app, engines, _conf, _ui_conf, now, wake, conf,
                   ui_conf, f_conf_apply, apply_steps, config_pickle,
                   ui_config_pickle>>
    /\ UNCHANGED <<llm_vars, aux_vars>>

\* with _app_lock0:
KeepAliveLock(p) ==
    /\ pc[p] = "k2"
    /\ CanAcquire(p)
    /\ lock' = p
    /\ Step(p, "k3")
    /\ UNCHANGED <<_app, engines, _conf, _ui_conf, _last_called, now, wake,
                   conf, ui_conf, f_conf_apply, apply_steps, config_pickle,
                   ui_config_pickle>>
    /\ UNCHANGED <<llm_vars, aux_vars>>

\* _app.open(), and the lock is released
KeepAliveOpen(p) ==
    /\ pc[p] = "k3"
    /\ engines' = EngineOpen(_app)
    /\ lock' = NoThread
    /\ Step(p, "ret")
    /\ UNCHANGED <<_app, _conf, _ui_conf, _last_called, now, wake, conf,
                   ui_conf, f_conf_apply, apply_steps, config_pickle,
                   ui_config_pickle>>
    /\ UNCHANGED <<llm_vars, aux_vars>>

\* the page is rendered and the refresh call returns
PollReturn(p) ==
    /\ pc[p] = "ret"
    /\ Step(p, "idle")
    /\ UNCHANGED <<lock, _app, engines, _conf, _ui_conf, _last_called, now,
                   wake, conf, ui_conf, f_conf_apply, apply_steps,
                   config_pickle, ui_config_pickle>>
    /\ UNCHANGED <<llm_vars, aux_vars>>

-----------------------------------------------------------------------------
(* the apply button: _pre_apply_configuration, then _apply_configuration *)

\* f_conf_apply.click(_pre_apply_configuration, ...): the button is disabled
ApplyPre ==
    /\ pc["apply"] = "idle"
    /\ f_conf_apply
    /\ f_conf_apply' = FALSE
    /\ apply_steps' = <<"disable">>
    /\ Step("apply", "a1")
    /\ UNCHANGED <<lock, _app, engines, _conf, _ui_conf, _last_called, now,
                   wake, conf, ui_conf, config_pickle, ui_config_pickle>>
    /\ UNCHANGED <<llm_vars, aux_vars>>

\* lines 540-591: conf and ui_conf are built from the form, _ui_conf is set
\* and _restart(conf) is called
ApplyBuild(c, u) ==
    /\ pc["apply"] = "a1"
    /\ conf' = [conf EXCEPT !["apply"] = c]
    /\ ui_conf' = u
    /\ _ui_conf' = u
    /\ apply_steps' = Append(apply_steps, "build")
    /\ Step("apply", AfterBuild)
    /\ UNCHANGED <<lock, _app, engines, _conf, _last_called, now, wake,
                   f_conf_apply, config_pickle, ui_config_pickle>>
    /\ UNCHANGED <<llm_vars, aux_vars>>

\* lines 592-593: config.pickle is replaced, atomically
ApplyWriteConf ==
    /\ pc["apply"] = "w1"
    /\ config_pickle' = conf["apply"]
    /\ apply_steps' = Append(apply_steps, "config.pickle")
    /\ Step("apply", "w2")
    /\ UNCHANGED <<lock, _app, engines, _conf, _ui_conf, _last_called, now,
                   wake, conf, ui_conf, f_conf_apply, ui_config_pickle>>
    /\ UNCHANGED <<llm_vars, aux_vars>>

\* lines 594-597: ui_config.pickle is replaced and the button enabled again
ApplyWriteUi ==
    /\ pc["apply"] = "w2"
    /\ ui_config_pickle' = ui_conf
    /\ f_conf_apply' = TRUE
    /\ apply_steps' = apply_steps \o <<"ui_config.pickle", "enable">>
    /\ Step("apply", "idle")
    /\ conf' = [conf EXCEPT !["apply"] = NoConf]
    /\ ui_conf' = NoConf
    /\ UNCHANGED <<lock, _app, engines, _conf, _ui_conf, _last_called, now,
                   wake, config_pickle>>
    /\ UNCHANGED <<llm_vars, aux_vars>>

\* a statement of _apply_configuration raises: the building of conf (lines
\* 540-588), main.Application(...) inside _restart (line 72, the `with` gives
\* the lock back), or one of the two writes (lines 592-595).  Nothing catches
\* it, and the return of line 597 is not reached
ApplyRaise(at) ==
    /\ pc["apply"] = at
    /\ lock' = IF at = "r2" THEN NoThread ELSE lock
    /\ apply_steps' = Append(apply_steps, "raised")
    /\ Step("apply", "idle")
    /\ conf' = [conf EXCEPT !["apply"] = NoConf]
    /\ ui_conf' = NoConf
    /\ UNCHANGED <<_app, engines, _conf, _ui_conf, _last_called, now, wake,
                   f_conf_apply, config_pickle, ui_config_pickle>>
    /\ UNCHANGED <<llm_vars, aux_vars>>

-----------------------------------------------------------------------------
(* _live_checker(), lines 56-63 *)

\* time.sleep(5.0) ends and the test of line 59 is made
CheckerTest ==
    /\ pc["checker"] = "sleep"
    /\ now >= wake
    /\ IF IdleTest
       THEN Step("checker", "c2") /\ wake' = wake
       ELSE Step("checker", "sleep") /\ wake' = now + CheckInterval
    /\ UNCHANGED <<lock, _app, engines, _conf, _ui_conf, _last_called, now,
                   conf, ui_conf, f_conf_apply, apply_steps, config_pickle,
                   ui_config_pickle>>
    /\ UNCHANGED <<llm_vars, aux_vars>>

\* with _app_lock0:
CheckerLock ==
    /\ pc["checker"] = "c2"
    /\ CanAcquire("checker")
    /\ lock' = "checker"
    /\ Step("checker", "c3")
    /\ UNCHANGED <<_app, engines, _conf, _ui_conf, _last_called, now, wake,
                   conf, ui_conf, f_conf_apply, apply_steps, config_pickle,
                   ui_config_pickle>>
    /\ UNCHANGED <<llm_vars, aux_vars>>

\* _app.close(), the lock is released and the next sleep begins
CheckerClose ==
    /\ pc["checker"] = "c3"
    /\ engines' = EngineClose(_app)
    /\ lock' = NoThread
    /\ wake' = now + CheckInterval
    /\ Step("checker", "sleep")
    /\ UNCHANGED <<_app, _conf, _ui_conf, _last_called, now, conf, ui_conf,
                   f_conf_apply, apply_steps, config_pickle, ui_config_pickle>>
    /\ UNCHANGED <<llm_vars, aux_vars>>

\* a second passes: the handlers and the checker's cycle take no time, and
\* the checker is not late
Tick ==
    /\ now < MaxTime
    /\ \A t \in Handlers : pc[t] = "idle"
    /\ pc["checker"] = "sleep"
    /\ now < wake
    /\ now' = now + 1
    /\ UNCHANGED <<pc, lock, _app, engines, _conf, _ui_conf, _last_called,
                   wake, conf, ui_conf, f_conf_apply, apply_steps,
                   config_pickle, ui_config_pickle>>
    /\ UNCHANGED <<llm_vars, aux_vars>>

-----------------------------------------------------------------------------
(* _playback_audio(), lines 267-268, and _playback_audio_task(), 239-264 *)

InitPlay ==
    /\ pb_queue = <<>>
    /\ pb_submitted = 0
    /\ pb_pc = [w \in Workers |-> "idle"]
    /\ pb_task = [w \in Workers |-> NoTask]
    /\ app = [w \in Workers |-> NoEngineRef]
    /\ pb_started = <<>>

\* variant: the unlock goes to the engine that is current at the time
UnlockCurrent(w) == _app

\* the engine suppress_audio_unlock() is called on: the local `app`, line 264
UnlockTarget(w) == app[w]

\* _playback_audio_executor.submit(_playback_audio_task, files)
PlaybackSubmit(kind) ==
    /\ pb_submitted < MaxPlay
    /\ pb_submitted' = pb_submitted + 1
    /\ pb_queue' = Append(pb_queue, [id |-> pb_submitted + 1, kind |-> kind])
    /\ UNCHANGED <<pb_pc, pb_task, app, pb_started>>
    /\ UNCHANGED <<llm_vars, tk_vars, app_vars, merge_vars, person_vars, boot, render_vars,
                   api_key>>

\* variant: a file that does not open is skipped and the files that opened
\* are played
SkipsBadFile(task) == FALSE

\* the except clause of lines 247-249: a file of the request does not open,
\* whichever it is, and the task returns
OpenFails(task) == task.kind = "bad file"

\* a free worker takes the oldest request and reads its files, lines 240-253:
\* a file that does not open ends the task
TaskBegin(w) ==
    /\ pb_pc[w] = "idle"
    /\ pb_queue # <<>>
    /\ pb_queue' = Tail(pb_queue)
    /\ pb_started' = Append(pb_started, Head(pb_queue).id)
    /\ IF OpenFails(Head(pb_queue))
       THEN UNCHANGED <<pb_pc, pb_task>>
       ELSE /\ pb_pc' = [pb_pc EXCEPT ![w] = "read"]
            /\ pb_task' = [pb_task EXCEPT ![w] = Head(pb_queue)]
    /\ UNCHANGED <<pb_submitted, app>>
    /\ UNCHANGED <<llm_vars, tk_vars, app_vars, merge_vars, person_vars, boot, render_vars,
                   api_key>>

\* app = _app; app.suppress_audio_lock(), lines 255-256
TaskLock(w) ==
    /\ pb_pc[w] = "read"
    /\ app' = [app EXCEPT ![w] = _app]
    /\ engines' = EngineSuppressLock(_app)
    /\ pb_pc' = [pb_pc EXCEPT ![w] = "locked"]
    /\ UNCHANGED <<pb_queue, pb_submitted, pb_task, pb_started>>
    /\ UNCHANGED <<pc, lock, _app, _conf, _ui_conf, _last_called, now, wake,
                   conf, ui_conf, f_conf_apply, apply_steps, config_pickle,
                   ui_config_pickle>>
    /\ UNCHANGED <<llm_vars, tk_vars, merge_vars, person_vars, boot, render_vars,
                   api_key>>

\* time.sleep(0.5) ends and sd.play(..., blocking=True) begins, or raises
TaskPlay(w) ==
    /\ pb_pc[w] = "locked"
    /\ pb_pc' = [pb_pc EXCEPT ![w] =
                    IF pb_task[w].kind = "play error" THEN "finally"
                    ELSE "playing"]
    /\ UNCHANGED <<pb_queue, pb_submitted, pb_task, app, pb_started>>
    /\ UNCHANGED <<llm_vars, tk_vars, app_vars, merge_vars, person_vars, boot, render_vars,
                   api_key>>

\* sd.play returns; time.sleep(0.5)
TaskPlayed(w) ==
    /\ pb_pc[w] = "playing"
    /\ pb_pc' = [pb_pc EXCEPT ![w] = "finally"]
    /\ UNCHANGED <<pb_queue, pb_submitted, pb_task, app, pb_started>>
    /\ UNCHANGED <<llm_vars, tk_vars, app_vars, merge_vars, person_vars, boot, render_vars,
                   api_key>>

\* finally: app.suppress_audio_unlock(); the task ends and its `app` with it
TaskUnlock(w) ==
    /\ pb_pc[w] = "finally"
    /\ LET e == UnlockTarget(w)
           unlocked == EngineSuppressUnlock(e)
           kept == app[w] = _app \/ engines[app[w]].opened
                       \/ \E v \in Workers \ {w} : app[v] = app[w]
       IN  engines' = IF kept \/ e # app[w] THEN unlocked
                      ELSE [unlocked EXCEPT ![e] = NoEngine]
    /\ app' = [app EXCEPT ![w] = NoEngineRef]
    /\ pb_pc' = [pb_pc EXCEPT ![w] = "idle"]
    /\ pb_task' = [pb_task EXCEPT ![w] = NoTask]
    /\ UNCHANGED <<pb_queue, pb_submitted, pb_started>>
    /\ UNCHANGED <<pc, lock, _app, _conf, _ui_conf, _last_called, now, wake,
                   conf, ui_conf, f_conf_apply, apply_steps, config_pickle,
                   ui_config_pickle>>
    /\ UNCHANGED <<llm_vars, tk_vars, merge_vars, person_vars, boot, render_vars,
                   api_key>>

-----------------------------------------------------------------------------
(* _merge_sentences(sentences, merge_interval=10.0), lines 211-226 *)

merge_interval == 10

\* the renderings of one list the model follows
MaxRender == 2

MaxSentences == 3

\* a prop of None
NoProp == [some |-> FALSE, has_list |-> FALSE, audio_file_name_list |-> <<>>]

\* t.AdditionalProperties(): audio_file_name_list is None
AdditionalProperties ==
    [some |-> TRUE, has_list |-> FALSE, audio_file_name_list |-> <<>>]

\* an AdditionalProperties whose audio_file_name_list is the list names
PropWithFiles(names) ==
    [some |-> TRUE, has_list |-> TRUE, audio_file_name_list |-> names]

\* prop.append_audio_file(name)
append_audio_file(prop, name) ==
    PropWithFiles(Append(prop.audio_file_name_list, name))

\* a stored sentence, the fields _merge_sentences reads
DisplaySentence(tm0, tm1, text, id, prop) ==
    [tm0 |-> tm0, tm1 |-> tm1, text |-> text, person_id |-> id, prop |-> prop]

\* Sentence.clone(): an exact copy that shares nothing with the original
clone(s_) == s_

MergePersons == {-1, 1, 2}
MergeGaps == {9, 10}
MergeProps == {NoProp, AdditionalProperties, PropWithFiles(<<"a.wav">>)}

\* the lists of up to MaxSentences sentences, each one second long and
\* starting a gap after the end of the one before
RECURSIVE MergeInputs(_)
MergeInputs(n) ==
    IF n = 0 THEN {<<>>}
    ELSE LET shorter == MergeInputs(n - 1) IN
         shorter \cup
         { Append(ss, DisplaySentence(
                        (IF ss = <<>> THEN 0 ELSE ss[Len(ss)].tm1) + g,
                        (IF ss = <<>> THEN 0 ELSE ss[Len(ss)].tm1) + g + 1,
                        IF Len(ss) = 0 THEN "t1"
                        ELSE IF Len(ss) = 1 THEN "t2" ELSE "t3",
                        id, prop)) :
             ss \in {x \in shorter : Len(x) = n - 1},
             g \in MergeGaps, id \in MergePersons, prop \in MergeProps }

\* the state at the first call of _merge_sentences(ss)
MergeCalled(ss) ==
    /\ m_sentences = ss
    /\ m_input = ss
    /\ ret = <<>>
    /\ m_i = 1
    /\ m_round = 1

\* variant: a gap of exactly merge_interval merges too
ShouldMergeInclusive(r, s_) ==
    /\ s_.person_id # -1
    /\ Len(r) # 0
    /\ r[Len(r)].val.person_id = s_.person_id
    /\ r[Len(r)].val.tm1 + merge_interval >= s_.tm0

\* the condition of lines 214-215, r being ret
ShouldMerge(r, s_) ==
    /\ s_.person_id # -1
    /\ Len(r) # 0
    /\ r[Len(r)].val.person_id = s_.person_id
    /\ r[Len(r)].val.tm1 + merge_interval > s_.tm0

\* lines 219-223: the audio files of s are appended to those of s0
RECURSIVE AppendFiles(_, _)
AppendFiles(prop, names) ==
    IF names = <<>> THEN prop
    ELSE AppendFiles(append_audio_file(prop, Head(names)), Tail(names))

MergedProp(s0, s_) ==
    IF s_.prop.some /\ s_.prop.has_list
    THEN AppendFiles(IF ~s0.prop.some THEN AdditionalProperties ELSE s0.prop,
                     s_.prop.audio_file_name_list)
    ELSE s0.prop

\* variant: the texts are joined without a space
MergedUnspaced(s0, s_) ==
    [s0 EXCEPT !.text = @ \o s_.text,
               !.tm1 = s_.tm1,
               !.prop = MergedProp(s0, s_)]

\* lines 216-223: s0 after the merge of s
Merged(s0, s_) ==
    [s0 EXCEPT !.text = @ \o " " \o s_.text,
               !.tm1 = s_.tm1,
               !.prop = MergedProp(s0, s_)]

\* variant: the stored sentence itself is put into ret
AppendedSame(i) == [ref |-> i, val |-> m_sentences[i]]

\* ret.append(s.clone()), line 225: a new object (ref 0 says that the entry
\* is none of the stored sentences)
Appended(i) == [ref |-> 0, val |-> clone(m_sentences[i])]

\* one iteration of the for loop
MergeStep ==
    /\ m_i <= Len(m_sentences)
    /\ LET s_ == m_sentences[m_i]
           n == Len(ret)
       IN  IF ShouldMerge(ret, s_)
           THEN /\ ret' = [ret EXCEPT ![n].val = Merged(ret[n].val, s_)]
                /\ m_sentences' =
                      IF ret[n].ref = 0 THEN m_sentences
                      ELSE [m_sentences EXCEPT
                               ![ret[n].ref] = Merged(ret[n].val, s_)]
           ELSE /\ ret' = Append(ret, Appended(m_i))
                /\ m_sentences' = m_sentences
    /\ m_i' = m_i + 1
    /\ UNCHANGED <<m_input, m_round>>
    /\ UNCHANGED <<llm_vars, tk_vars, app_vars, play_vars, person_vars, boot, render_vars,
                   api_key>>

\* the list is rendered again: _merge_sentences is called on the same
\* stored sentences
MergeAgain ==
    /\ m_i > Len(m_sentences)
    /\ m_round < MaxRender
    /\ m_round' = m_round + 1
    /\ ret' = <<>>
    /\ m_i' = 1
    /\ UNCHANGED <<m_sentences, m_input>>
    /\ UNCHANGED <<llm_vars, tk_vars, app_vars, play_vars, person_vars, boot, render_vars,
                   api_key>>

-----------------------------------------------------------------------------
(* _rename_person_name(), lines 484-492, and _resolve_person(), 407-417 *)

\* the calls of _rename_person_name the model follows
MaxRenameCalls == 3

Digits == {"0", "1", "2", "3", "4", "5", "6", "7", "8", "9"}

DigitValue(c) ==
    CASE c = "0" -> 0 [] c = "1" -> 1 [] c = "2" -> 2 [] c = "3" -> 3
      [] c = "4" -> 4 [] c = "5" -> 5 [] c = "6" -> 6 [] c = "7" -> 7
      [] c = "8" -> 8 [] c = "9" -> 9

\* int(r.group(1)), line 413
RECURSIVE int(_)
int(ds) ==
    IF ds = <<>> THEN 0
    ELSE 10 * int(SubSeq(ds, 1, Len(ds) - 1)) + DigitValue(ds[Len(ds)])

\* a selection: None, or the characters of a string; `names` is the id a
\* reader takes the text to name with "(ID:N)" at its end, 0 when it has no
\* such ending
Choice(chars, names) == [is_none |-> FALSE, chars |-> chars, names |-> names]

NoChoice == [is_none |-> TRUE, chars |-> <<>>, names |-> 0]

Choices ==
    { NoChoice,
      Choice(<<>>, 0),
      Choice(<<"A">>, 0),
      Choice(<<"A", " ", "(", "I", "D", ":", "1", ")">>, 1),
      Choice(<<"B", " ", "(", "I", "D", ":", "1", "2", ")">>, 12),
      Choice(<<"(", "I", "D", ":", "2", ")">>, 2),
      Choice(<<"A", " ", "(", "I", "D", ":", "7", ")">>, 7),
      Choice(<<"A", " ", "(", "I", "D", ":", ")">>, 0),
      Choice(<<"(", "I", "D", ":", "1", ")", " ", "A">>, 0),
      Choice(<<"A", " ", "(", "I", "D", "1", ")">>, 0) }

NewNames == {"", "Ann", "Bob"}

\* where $ matches: at the end of the string, and also just before a newline
\* that is the last character of the string (re without re.MULTILINE)
EndOfText(chars) ==
    IF Len(chars) > 0 /\ chars[Len(chars)] = "\n" THEN Len(chars) - 1
    ELSE Len(chars)

\* re.search(r"\(ID:(\d+)\)$", choice): the digits of group 1, <<>> when
\* there is no match
SearchId(chars) ==
    LET n == EndOfText(chars) IN
    IF n = 0 \/ chars[n] # ")" THEN <<>>
    ELSE LET starts == {k \in 1..(n - 1) :
                           \A j \in k..(n - 1) : chars[j] \in Digits}
         IN  IF starts = {} THEN <<>>
             ELSE LET k == CHOOSE x \in starts : \A y \in starts : x <= y IN
                  IF k > 4 /\ SubSeq(chars, k - 4, k - 1) = <<"(", "I", "D", ":">>
                  THEN SubSeq(chars, k, n - 1)
                  ELSE <<>>

NoPerson == 0

\* _resolve_person(choice): the person_id of the person found, NoPerson for
\* None
_resolve_person(choice) ==
    IF choice.is_none THEN NoPerson
    ELSE LET r == SearchId(choice.chars) IN
         IF r = <<>> THEN NoPerson
         ELSE IF int(r) \in DOMAIN persons THEN int(r) ELSE NoPerson

\* a Person of the registry, the fields a rename touches
Person(name, is_default) == [name |-> name, is_default |-> is_default]

\* main.Application.rename(person_id, name)
EngineRename(person_id, name) ==
    [persons EXCEPT ![person_id] = Person(name, FALSE)]

\* no call of _resolve_person yet
NotResolved == [called |-> FALSE, person_id |-> NoPerson]

InitPersons ==
    /\ persons = (1 :> Person("person1", TRUE)) @@ (12 :> Person("person12", TRUE))
    /\ rename_log = <<>>
    /\ rn_calls = 0
    /\ f_person_selector = NoChoice
    /\ f_person_new_name = ""
    /\ resolved = NotResolved

\* variant: a rename that is asked for whatever the new name
RenameAlways(name) == TRUE

\* if len(f_person_new_name) != 0, line 485
RenameWanted(name) == name # ""

\* the rename button: _rename_person_name(selector, new_name)
RenamePersonName(selector, new_name) ==
    /\ rn_calls < MaxRenameCalls
    /\ rn_calls' = rn_calls + 1
    /\ f_person_selector' = selector
    /\ f_person_new_name' = new_name
    /\ LET p == IF RenameWanted(new_name) THEN _resolve_person(selector)
                ELSE NoPerson
       IN  IF p # NoPerson
           THEN /\ persons' = EngineRename(p, new_name)
                /\ rename_log' = Append(rename_log, <<p, new_name>>)
           ELSE UNCHANGED <<persons, rename_log>>
    /\ resolved' = resolved
    /\ UNCHANGED <<llm_vars, tk_vars, app_vars, play_vars, merge_vars, boot, render_vars,
                   api_key>>

\* "%d" % n, n >= 0
RECURSIVE Decimal(_)
Decimal(n) ==
    LET d == CASE n % 10 = 0 -> "0" [] n % 10 = 1 -> "1" [] n % 10 = 2 -> "2"
               [] n % 10 = 3 -> "3" [] n % 10 = 4 -> "4" [] n % 10 = 5 -> "5"
               [] n % 10 = 6 -> "6" [] n % 10 = 7 -> "7" [] n % 10 = 8 -> "8"
               [] n % 10 = 9 -> "9"
    IN  IF n < 10 THEN <<d>> ELSE Append(Decimal(n \div 10), d)

\* _get_person(p), p the person of the registry with this id:
\* "%s (ID:%d)" % (p.name, p.person_id)
_get_person(person_id) ==
    persons[person_id].name \o <<" ", "(", "I", "D", ":">> \o Decimal(person_id)
        \o <<")">>

\* the names a person may have, as characters: empty, plain, of the form
\* "(ID:N)", and ending in a newline
PersonNames ==
    { <<>>,
      <<"A">>,
      <<"(", "I", "D", ":", "1", "2", ")">>,
      <<"A", "\n">> }

\* the registries drawn: persons 1 and 12 under each pair of names
Registries ==
    { (1 :> Person(n1, TRUE)) @@ (12 :> Person(n12, TRUE)) :
        n1 \in PersonNames, n12 \in PersonNames }

\* texts that end in a newline
NewlineChoices ==
    { Choice(<<"A", " ", "(", "I", "D", ":", "1", ")", "\n">>, 0),
      Choice(<<"A", "\n">>, 0),
      Choice(<<"A", " ", "(", "I", "D", ":", "1", ")", "\n", "\n">>, 0) }

\* a call p = _resolve_person(choice), as in lines 480, 486 and 496
ResolvePerson(choice) ==
    /\ f_person_selector' = choice
    /\ resolved' = [called |-> TRUE, person_id |-> _resolve_person(choice)]
    /\ UNCHANGED <<persons, rename_log, rn_calls, f_person_new_name>>
    /\ UNCHANGED <<llm_vars, tk_vars, app_vars, play_vars, merge_vars, boot, render_vars,
                   api_key>>

-----------------------------------------------------------------------------
(* _output_text(reader, include_anker), lines 314-351 *)

\* the groups of one rendering the model follows
MaxGroups == 2

\* t.SENTENCE_QUALIFY_ERROR and a state that is not it
SENTENCE_QUALIFY_ERROR == "qualify error"
GroupStates == {SENTENCE_QUALIFY_ERROR, "other"}

\* g.qualified is None
NotQualified ==
    [set |-> FALSE, corrected_sentences |-> <<>>, summaries |-> "",
     action_items |-> <<>>]

\* the sentence lists and the qualified results of the groups drawn
GroupSentences == {<<"s1">>, <<"s1", "s2">>}
GroupQualified(ss) ==
    {NotQualified, QualifiedResult(ss, "sum", <<>>),
     QualifiedResult(ss, "sum", <<"a1", "a2">>)}

\* a group of the reader, the fields _output_text reads
Group(ss, qualified, state) ==
    [sentences |-> ss, qualified |-> qualified, state |-> state]

Groups ==
    {Group(ss, q, st) : ss \in GroupSentences,
                        q \in UNION {GroupQualified(x) : x \in GroupSentences},
                        st \in GroupStates}

RECURSIVE GroupLists(_)
GroupLists(n) ==
    IF n = 0 THEN {<<>>}
    ELSE LET shorter == GroupLists(n - 1) IN
         shorter \cup {Append(gs, g) : gs \in {x \in shorter : Len(x) = n - 1},
                                        g \in Groups}

\* a row of the table: whether it has the id "lastRow", whether it shows the
\* error label, the summary cell (shown or not, its text and action items),
\* the cell of the sentences (over both columns or small) and its sentences
Row(last_row, error_label, summary, colspan, ss) ==
    [last_row |-> last_row, error_label |-> error_label, summary |-> summary,
     colspan |-> colspan, sentences |-> ss]

NoSummaryCell == [shown |-> FALSE, text |-> "", action_items |-> <<>>]

SummaryCell(text, action_items) ==
    [shown |-> TRUE, text |-> text, action_items |-> action_items]

\* the state at a call of _output_text(reader, include_anker)
OutputTextCalled(groups, anker) ==
    /\ reader = groups
    /\ include_anker = anker
    /\ rows = <<>>
    /\ index = 0

\* variant: a qualified chunk shows its summary whatever its state
RowSummaryFirst(g, last_row) ==
    IF ~g.qualified.set
    THEN IF g.state = SENTENCE_QUALIFY_ERROR
         THEN Row(last_row, TRUE, NoSummaryCell, FALSE, g.sentences)
         ELSE Row(last_row, FALSE, NoSummaryCell, TRUE, g.sentences)
    ELSE Row(last_row, FALSE,
             SummaryCell(g.qualified.summaries, g.qualified.action_items),
             FALSE, g.qualified.corrected_sentences)

\* lines 320-349: the row of group g
RenderedRow(g, last_row) ==
    IF ~g.qualified.set
    THEN IF g.state = SENTENCE_QUALIFY_ERROR
         THEN Row(last_row, TRUE, NoSummaryCell, FALSE, g.sentences)
         ELSE Row(last_row, FALSE, NoSummaryCell, TRUE, g.sentences)
    ELSE IF g.state = SENTENCE_QUALIFY_ERROR
         THEN Row(last_row, TRUE, NoSummaryCell, FALSE,
                  g.qualified.corrected_sentences)
         ELSE Row(last_row, FALSE,
                  SummaryCell(g.qualified.summaries, g.qualified.action_items),
                  FALSE, g.qualified.corrected_sentences)

\* one iteration of `for index in range(group_count)`
RenderGroup ==
    /\ index < Len(reader)
    /\ rows' = Append(rows,
                  RenderedRow(reader[index + 1],
                              include_anker /\ index + 1 = Len(reader)))
    /\ index' = index + 1
    /\ UNCHANGED <<reader, include_anker>>
    /\ UNCHANGED <<llm_vars, tk_vars, app_vars, play_vars, merge_vars, person_vars, boot,
                   api_key>>

-----------------------------------------------------------------------------
(* Startup: the __main__ block, lines 848-868, and app_main(), 620-631 *)

\* a file that exists and that pickle.load cannot read, or that holds no
\* "conf"
Invalid == "invalid"

\* pickle.load(f) or d["conf"] raises, lines 605-606 and 615-616; nothing
\* in the callers catches it
LoadRaises(file) == file = Invalid

\* the program is launched: no thread runs, nothing is bound
Launched ==
    /\ \E fc \in {NoFile, "c1", Invalid}, fu \in {NoFile, "u1", Invalid} :
          /\ config_pickle = fc
          /\ ui_config_pickle = fu
    /\ boot = "main"
    /\ api_key = NoKey
    /\ _ui_conf = NoConf
    /\ _app = NoEngineRef
    /\ engines = [e \in EngineIds |-> NoEngine]
    /\ _conf = NoConf
    /\ _last_called = 0
    /\ now = StartTime
    /\ wake = StartTime + CheckInterval
    /\ pc = [t \in Threads |-> "off"]
    /\ lock = NoThread
    /\ conf = [t \in Handlers |-> NoConf]
    /\ ui_conf = NoConf
    /\ f_conf_apply = TRUE
    /\ apply_steps = ApplyOrder

\* the __main__ block up to the call of app_main(), lines 849-866:
\* _ui_conf = _load_ui_configuration(), and openai.api_key is set from it
MainLoadUi ==
    /\ boot = "main"
    /\ IF LoadRaises(ui_config_pickle)
       THEN /\ boot' = "failed"
            /\ _ui_conf' = _ui_conf
            /\ api_key' = api_key
       ELSE /\ boot' = "app_main"
            /\ _ui_conf' = _load_ui_configuration
            /\ api_key' = ConfigureKey(_load_ui_configuration, api_key)
    /\ UNCHANGED <<pc, lock, _app, engines, _conf, _last_called, now, wake,
                   conf, ui_conf, f_conf_apply, apply_steps, config_pickle,
                   ui_config_pickle>>
    /\ UNCHANGED <<llm_vars, tk_vars, play_vars, merge_vars, person_vars, render_vars>>

\* app_main(), lines 622-623: os.makedirs(...) and tools.recover_files(...)
AppMainRecover ==
    /\ boot = "app_main"
    /\ boot' = "recovered"
    /\ UNCHANGED <<llm_vars, tk_vars, api_key, app_vars, play_vars, merge_vars,
                   person_vars, render_vars>>

\* app_main() from line 625 to the start of the UI: the engine is built from
\* the loaded Configuration and the checker thread started
AppMainStart ==
    /\ boot = "recovered"
    /\ IF LoadRaises(config_pickle)
       THEN /\ boot' = "failed"
            /\ UNCHANGED <<pc, _app, engines, _conf>>
       ELSE /\ boot' = "running"
            /\ _app' = "e1"
            /\ engines' = [engines EXCEPT !["e1"] = NewEngine(_load_configuration)]
            /\ _conf' = Effective(_load_configuration)
            /\ pc' = [t \in Threads |-> IF t = "checker" THEN "sleep" ELSE "idle"]
    /\ UNCHANGED <<lock, _ui_conf, _last_called, now, wake, conf, ui_conf,
                   f_conf_apply, apply_steps, config_pickle, ui_config_pickle>>
    /\ UNCHANGED <<llm_vars, tk_vars, api_key, play_vars, merge_vars, person_vars,
                   render_vars>>

-----------------------------------------------------------------------------
(* Specifications *)

Playback ==
    \/ \E kind \in PlayKinds : PlaybackSubmit(kind)
    \/ \E w \in Workers :
          \/ TaskBegin(w)
          \/ TaskLock(w)
          \/ TaskPlay(w)
          \/ TaskPlayed(w)
          \/ TaskUnlock(w)

Poll(p) ==
    \/ PollBegin(p)
    \/ RestartClose(p)
    \/ RestartConstruct(p)
    \/ RestartReread(p)
    \/ KeepAliveMark(p)
    \/ KeepAliveLock(p)
    \/ KeepAliveOpen(p)
    \/ PollReturn(p)

Apply ==
    \/ ApplyPre
    \/ \E c \in Confs, u \in UiConfs : ApplyBuild(c, u)
    \/ RestartClose("apply")
    \/ RestartConstruct("apply")
    \/ RestartReread("apply")
    \/ ApplyWriteConf
    \/ ApplyWriteUi

Checker ==
    \/ CheckerTest
    \/ CheckerLock
    \/ CheckerClose

\* app_main has started the checker thread and the UI
Started == boot = "running"

InitAux ==
    /\ InitPlay
    /\ MergeCalled(<<>>)
    /\ InitPersons
    /\ Started
    /\ OutputTextCalled(<<>>, FALSE)
    /\ TokensCalled(<<>>, default_model_name)

Init == InitApp /\ QualifyCalled(<<>>) /\ InitAux

Next ==
    \/ Poll("p1")
    \/ Apply
    \/ Checker
    \/ Tick

Spec == Init /\ [][Next]_vars

NextPoll ==
    \/ Poll("p1")
    \/ Checker
    \/ Tick

SpecPoll == Init /\ [][NextPoll]_vars

\* where _apply_configuration may raise: building, constructing the engine,
\* writing config.pickle, writing ui_config.pickle
RaisePoints == {"a1", "r2", "w1", "w2"}

NextApply ==
    \/ Poll("p1")
    \/ Apply
    \/ \E at \in RaisePoints : ApplyRaise(at)

SpecApply == Init /\ [][NextApply]_vars

\* two polls at once (two clients, or a refresh that overtakes another), the
\* checker and the clock
NextRace ==
    \/ Poll("p1")
    \/ Poll("p2")
    \/ Checker
    \/ Tick

SpecRace == Init /\ [][NextRace]_vars

NextPlay ==
    \/ Poll("p1")
    \/ Checker
    \/ Tick
    \/ Playback

\* the persisted files play no part in a playback: one start is followed
InitPlayback == Init /\ config_pickle # NoFile

SpecPlay == InitPlayback /\ [][NextPlay]_vars

\* playback requests beside the polls of one client, the clock standing
NextPlayPoll ==
    \/ Poll("p1")
    \/ Playback

SpecPlayPoll == InitPlayback /\ [][NextPlayPoll]_vars

InitMerge ==
    /\ InitApp
    /\ QualifyCalled(<<>>)
    /\ InitPlay
    /\ InitPersons
    /\ Started
    /\ OutputTextCalled(<<>>, FALSE)
    /\ \E ss \in MergeInputs(MaxSentences) : MergeCalled(ss)
    /\ TokensCalled(<<>>, default_model_name)

NextMerge ==
    \/ MergeStep
    \/ MergeAgain

SpecMerge == InitMerge /\ [][NextMerge]_vars

\* _merge_sentences on its own output.  The sentences need not be in the
\* order of their times: a sentence may start before the end of the one
\* before it
MaxList == 3
RemergePersons == {-1, 1}
RemergeGaps == {-3, 9, 10}
RemergeProps == {NoProp, PropWithFiles(<<"a.wav">>)}

RECURSIVE RemergeInputs(_)
RemergeInputs(n) ==
    IF n = 0 THEN {<<>>}
    ELSE LET shorter == RemergeInputs(n - 1) IN
         shorter \cup
         { Append(ss, DisplaySentence(
                        (IF ss = <<>> THEN 0 ELSE ss[Len(ss)].tm1) + g,
                        (IF ss = <<>> THEN 0 ELSE ss[Len(ss)].tm1) + g + 1,
                        IF Len(ss) = 0 THEN "t1"
                        ELSE IF Len(ss) = 1 THEN "t2"
                        ELSE IF Len(ss) = 2 THEN "t3" ELSE "t4",
                        id, prop)) :
             ss \in {x \in shorter : Len(x) = n - 1},
             g \in RemergeGaps, id \in RemergePersons, prop \in RemergeProps }

\* the list _merge_sentences returned
Returned(r) == [k \in 1..Len(r) |-> r[k].val]

\* _merge_sentences(_merge_sentences(ss)): the second call, on what the first
\* returned
MergeOutput ==
    /\ m_i > Len(m_sentences)
    /\ m_round = 1
    /\ m_round' = 2
    /\ m_sentences' = Returned(ret)
    /\ m_input' = Returned(ret)
    /\ ret' = <<>>
    /\ m_i' = 1
    /\ UNCHANGED <<llm_vars, tk_vars, app_vars, play_vars, person_vars, boot, render_vars,
                   api_key>>

InitRemerge ==
    /\ InitApp
    /\ QualifyCalled(<<>>)
    /\ InitPlay
    /\ InitPersons
    /\ Started
    /\ OutputTextCalled(<<>>, FALSE)
    /\ \E ss \in RemergeInputs(MaxList) : MergeCalled(ss)
    /\ TokensCalled(<<>>, default_model_name)

NextRemerge ==
    \/ MergeStep
    \/ MergeOutput

SpecRemerge == InitRemerge /\ [][NextRemerge]_vars

NextPersons ==
    \E selector \in Choices, new_name \in NewNames :
        RenamePersonName(selector, new_name)

SpecPersons == Init /\ [][NextPersons]_vars

\* _resolve_person on what _get_person gives for the persons of a registry,
\* and on other texts
InitSelector ==
    /\ InitApp
    /\ QualifyCalled(<<>>)
    /\ InitPlay
    /\ MergeCalled(<<>>)
    /\ Started
    /\ OutputTextCalled(<<>>, FALSE)
    /\ TokensCalled(<<>>, default_model_name)
    /\ persons \in Registries
    /\ rename_log = <<>>
    /\ rn_calls = 0
    /\ f_person_selector = NoChoice
    /\ f_person_new_name = ""
    /\ resolved = NotResolved

NextSelector ==
    \/ \E p \in DOMAIN persons : ResolvePerson(Choice(_get_person(p), p))
    \/ \E choice \in Choices \cup NewlineChoices : ResolvePerson(choice)

SpecSelector == InitSelector /\ [][NextSelector]_vars

InitRender ==
    /\ InitApp
    /\ QualifyCalled(<<>>)
    /\ InitPlay
    /\ MergeCalled(<<>>)
    /\ InitPersons
    /\ Started
    /\ \E groups \in GroupLists(MaxGroups), anker \in BOOLEAN :
          OutputTextCalled(groups, anker)
    /\ TokensCalled(<<>>, default_model_name)

NextRender == RenderGroup

SpecRender == InitRender /\ [][NextRender]_vars

InitStart ==
    /\ Launched
    /\ QualifyCalled(<<>>)
    /\ InitPlay
    /\ MergeCalled(<<>>)
    /\ InitPersons
    /\ OutputTextCalled(<<>>, FALSE)
    /\ TokensCalled(<<>>, default_model_name)

NextStart ==
    \/ MainLoadUi
    \/ AppMainRecover
    \/ AppMainStart
    \/ Poll("p1")
    \/ Checker
    \/ Tick

SpecStart == InitStart /\ [][NextStart]_vars

InitTokens ==
    /\ InitApp
    /\ QualifyCalled(<<>>)
    /\ InitPlay
    /\ MergeCalled(<<>>)
    /\ InitPersons
    /\ Started
    /\ OutputTextCalled(<<>>, FALSE)
    /\ \E msgs \in TokenMessageLists(MaxMessages), model \in TokenModels :
          TokensCalled(msgs, model)

NextTokens == NumTokensReturn

SpecTokens == InitTokens /\ [][NextTokens]_vars

InitLLM ==
    /\ InitApp
    /\ InitAux
    /\ \E ss \in SentenceLists : QualifyCalled(ss)

NextLLM ==
    \/ BeginPass1
    \/ BeginPass2
    \/ ApiAuthError
    \/ \E type \in {"HTTPError", "OpenAIError"} : ApiTransportError(type)
    \/ Sleep
    \/ \E resp \in Responses, fr \in FinishReasons : ApiReturn(resp, fr)

\* pass 1 alone, on chunks whose speakers share names, lack ids or both
MaxChunk == 2
SpeakerNames == {"Alice", UnknownPersonName}
SpeakerIds == {-1, 7, 9}

ChunkSentence(i, name, id, emb) ==
    Sentence(2 * i - 1, 2 * i, IF i = 1 THEN "er hello" ELSE "good bye",
             name, id, emb)

Chunks ==
    UNION { { [i \in 1..n |-> ChunkSentence(i, f[i][1], f[i][2], f[i][3])] :
                f \in [1..n -> SpeakerNames \X SpeakerIds \X BOOLEAN] } :
            n \in 1..MaxChunk }

\* what the chat API may answer in pass 1
NameResponses ==
    { << Seg("", "hello") >>,
      << Seg("Alice", "hello") >>,
      << Seg("Alice", "hello"), Seg(UnknownPersonName, "bye") >>,
      << Seg("", "well"), Seg("Alice", "hello"), Seg("Carol", "bye") >> }

InitCorrect ==
    /\ InitApp
    /\ InitAux
    /\ \E ss \in Chunks : QualifyCalled(ss)

NextCorrect ==
    \/ BeginPass1
    \/ \E resp \in NameResponses : ApiReturn(resp, "stop")

SpecCorrect == InitCorrect /\ [][NextCorrect]_vars

SpecLLM == InitLLM /\ [][NextLLM]_vars

\* qualify() runs in the thread of its caller: a step that can be taken is
\* taken, and every API call gives an outcome
SpecLLMFair == InitLLM /\ [][NextLLM]_vars /\ WF_vars(NextLLM)

-----------------------------------------------------------------------------
(* Claims on qualify(), checked under SpecLLM *)

\* C1: an authentication error in pass 1 or in pass 2 does not leave
\* qualify(): the call returns the original sentences, the localized
\* authentication-error text as summary and no action items, and no API call
\* follows the one that failed.
C1_AuthFallback ==
    auth_at # 0 =>
        /\ qpc = "returned"
        /\ error = NoError
        /\ result.set
        /\ result.corrected_sentences = sentences
        /\ result.summaries = AuthErrorText
        /\ result.action_items = <<>>
        /\ api_calls = auth_at

\* the authentication error came in pass 2, after pass 1 had corrected
C1_Witness ==
    /\ auth_at # 0
    /\ pass = 2
    /\ corrected.is_list
    /\ result.set

\* C2: one _invoke makes at most 3 API calls; a transport failure on attempt
\* 1 or 2 is followed by a 10 second pause and another attempt, one on
\* attempt 3 is raised; an authentication failure is raised at once, with no
\* pause after it.
C2_TransportRetry ==
    /\ try_count <= MaxTries
    /\ qpc = "invoke" => try_count < MaxTries /\ slept = RetrySleep * try_count
    /\ qpc = "sleep" =>
          try_count \in 1..(MaxTries - 1) /\ slept = RetrySleep * (try_count - 1)
    /\ (qpc = "raised" /\ error.what = "transport") =>
          /\ try_count = MaxTries
          /\ slept = RetrySleep * (MaxTries - 1)
          /\ error.type \in {"HTTPError", "OpenAIError"}
    /\ auth_at # 0 =>
          /\ qpc = "returned"
          /\ slept = RetrySleep * (try_count - 1)

\* the third attempt failed and the failure was raised
C2_Witness ==
    /\ qpc = "raised"
    /\ error.what = "transport"
    /\ try_count = 3
    /\ slept = 20

\* C3: a request with a validator gets at most 3 responses validated, with
\* no pause of its own between them; what it returns is the processed form of
\* a response that validates, and after 3 invalid responses it raises the
\* invalid-response error with the request messages and the third response.
C3_ContentRetry ==
    /\ attempt <= MaxAttempts
    /\ req_calls <= MaxAttempts * MaxTries
    /\ slept_total <= RetrySleep * failures
    /\ (qpc = "raised" /\ error.what = "invalid") =>
          /\ post_process # "none"
          /\ attempt = MaxAttempts
          /\ error.messages = messages
          /\ error.last = r0
          /\ post_process = "names" => Len(FindallNameText(r0, "")) = 0
          /\ post_process = "points" => Len(FindallKey("point", r0)) # 1
    /\ (qpc = "pass2" /\ post_process = "names" /\ Len(sentences) # 0) =>
          /\ Len(FindallNameText(r0, "")) # 0
          /\ corrected.is_list
          /\ Len(corrected.val) = Len(FindallNameText(r0, ""))
          /\ \A i \in 1..Len(corrected.val) :
                /\ corrected.val[i].person_name = FindallNameText(r0, "")[i][1]
                /\ corrected.val[i].text = FindallNameText(r0, "")[i][2]
    /\ (qpc = "returned" /\ auth_at = 0 /\ pass = 2 /\ post_process = "points") =>
          /\ Len(FindallKey("point", r0)) = 1
          /\ result.summaries \in {FindallKey("point", r0)[1], NoSummary}

\* three responses of pass 1 with embeddings had no "Name: text" line
C3_Witness ==
    /\ qpc = "raised"
    /\ error.what = "invalid"
    /\ post_process = "names"
    /\ attempt = 3
    /\ error.last = << Seg("", "hello") >>

\* C4: a request of more than 3096 tokens raises the over-limit error before
\* any API call of that request, and is not retried; a request of 3096 tokens
\* or less goes on to the API call.
C4_TokenLimit ==
    /\ (qpc = "raised" /\ error.what = "limit") =>
          /\ _num_tokens_from_messages(messages, default_model_name).n > TokenLimit
          /\ req_calls = 0
          /\ attempt = 0
          /\ error.messages = messages
    /\ qpc \in {"invoke", "sleep"} =>
          /\ _num_tokens_from_messages(messages, default_model_name).n <= TokenLimit
          /\ attempt >= 1

\* a request of 3097 tokens was refused, in pass 2, after pass 1 ran at the
\* limit of 3096
C4_Witness ==
    /\ qpc = "raised"
    /\ error.what = "limit"
    /\ pass = 2
    /\ _num_tokens_from_messages(messages, default_model_name).n = TokenLimit + 1
    /\ req_calls = 0

\* the lines of a text whose key is k
KeyLines(text, k) == {i \in 1..Len(text) : text[i][1] = k}

\* a step in which the API answered a pass-2 request with finish_reason "stop"
Pass2Answered ==
    /\ qpc = "invoke"
    /\ post_process = "points"
    /\ api_calls' = api_calls + 1
    /\ failures' = failures
    /\ auth_at' = auth_at
    /\ ~(qpc' = "raised" /\ error'.what = "finish")

\* C14: a pass-2 response with no point line or with several is rejected: the
\* call goes to its next attempt, or raises after the third; a response with
\* exactly one point line is accepted: the summary is the value of that line,
\* or the placeholder when the value is "none", and the action items are the
\* values of the action item lines, in order, without those equal to "none".
C14_PointStep ==
    Pass2Answered =>
        LET points == KeyLines(r0', "point")
            items == KeyLines(r0', "action item")
            kept == {i \in items : r0'[i][2] # "none"}
        IN  IF Cardinality(points) # 1
            THEN /\ ~result'.set
                 /\ \/ qpc' = "invoke" /\ attempt' = attempt + 1
                    \/ /\ attempt = MaxAttempts
                       /\ qpc' = "raised"
                       /\ error'.what = "invalid"
            ELSE /\ qpc' = "returned"
                 /\ result'.set
                 /\ \A i \in points :
                       result'.summaries =
                          IF r0'[i][2] = "none" THEN NoSummary ELSE r0'[i][2]
                 /\ result'.summaries # "none"
                 /\ Len(result'.action_items) = Cardinality(kept)
                 /\ \A n \in 1..Len(result'.action_items) :
                       \E i \in kept :
                          /\ result'.action_items[n] = r0'[i][2]
                          /\ Cardinality({j \in kept : j < i}) = n - 1

C14_WitnessNone ==
    /\ qpc = "returned"
    /\ auth_at = 0
    /\ r0 = << Seg("point", "none") >>
    /\ result.summaries = NoSummary

\* C15: whatever qualify() returns, on the normal path and on the
\* authentication fallback, corrected_sentences is the input list as it was
\* given; what pass 1 corrected is not in the result.
C15_OriginalSentences ==
    result.set =>
        /\ result.corrected_sentences = sentences
        /\ sentences \in SentenceLists

\* qualify() returned a summary after pass 1 had rewritten the sentences
C15_Witness ==
    /\ result.set
    /\ auth_at = 0
    /\ corrected.is_list
    /\ corrected.val # sentences
    /\ result.summaries = "s1"

-----------------------------------------------------------------------------
(* Claims on the engine lifecycle *)

IsPrefix(s, t) == Len(s) <= Len(t) /\ \A i \in 1..Len(s) : s[i] = t[i]

\* C5: open, close and the close-construct-reread sequence of a restart
\* never overlap: at most one thread is inside `with _app_lock0:`, and it is
\* the holder of the lock.
C5_MutualExclusion ==
    /\ \A t, u \in Threads : InLifecycle(t) /\ InLifecycle(u) => t = u
    /\ \A t \in Threads : InLifecycle(t) => lock = t

\* the apply handler is inside its restart while a poll waits to open and
\* the idle checker waits to close
C5_Witness ==
    /\ pc["apply"] = "r3"
    /\ pc["p1"] = "k2"
    /\ pc["checker"] = "c2"

\* C6: an engine is never open with more than 10 seconds since the last
\* poll: the check cycle that follows closes it; and a poll that finds the
\* engine closed opens it, so that the engine is open when the poll leaves
\* the lock.  (Handlers and check cycles take no time; the checker wakes on
\* time.)
C6_IdleBound ==
    is_opened(_app) => now - _last_called <= CheckInterval + StaleAfter

C6_PollReopens ==
    \A p \in Pollers :
        /\ (pc[p] = "k1" /\ pc'[p] # "k1" /\ ~is_opened(_app)) => pc'[p] = "k2"
        /\ (pc[p] = "k3" /\ pc'[p] # "k3") => engines'[_app'].opened

C6_IdleClose == []C6_IdleBound /\ [][C6_PollReopens]_vars

\* the engine has been idle for exactly 10 seconds and the checker, inside
\* the lock, is about to close it
C6_Witness ==
    /\ pc["checker"] = "c3"
    /\ is_opened(_app)
    /\ now - _last_called = CheckInterval + StaleAfter

\* C7: the idle checker never closes an open engine whose last-activity
\* timestamp is 5 seconds old or less at the moment of the close.
C7_ClosesOnlyStale ==
    [][(pc["checker"] = "c3" /\ pc'["checker"] # "c3" /\ is_opened(_app))
          => _last_called + StaleAfter < now]_vars

\* C8: when a refresh call returns, the last-activity timestamp is the time
\* of the call and the current engine is open.
C8_OpenOnReturn ==
    \A p \in Pollers :
        pc[p] = "ret" => _last_called = now /\ is_opened(_app)

\* C9: when a restart completes, every engine but the current one is closed,
\* the current engine is a new instance built from the Configuration passed
\* to the restart, and _conf is the effective configuration read back from
\* it; whenever no thread holds the lock, _conf is that of the current engine.
C9_SnapshotCurrent ==
    lock = NoThread => _conf = Effective(engines[_app].conf)

C9_RestartStep ==
    \A t \in Handlers :
        /\ (pc[t] = "r2" /\ pc'[t] # "r2") =>
              /\ ~is_opened(_app)
              /\ _app' # _app
              /\ engines'[_app'] = NewEngine(conf[t])
        /\ (pc[t] = "r3" /\ pc'[t] # "r3") =>
              /\ \A e \in EngineIds \ {_app'} : ~engines'[e].opened
              /\ engines'[_app'].conf = conf[t]
              /\ _conf' = Effective(conf[t])
              /\ lock' = NoThread

C9_Restart == []C9_SnapshotCurrent /\ [][C9_RestartStep]_vars

\* a poll has restarted the engine with the configuration of config.pickle
C9_Witness ==
    /\ pc["p1"] = "k1"
    /\ lock = NoThread
    /\ _app # "e1"
    /\ config_pickle \in Confs
    /\ _conf = Effective(config_pickle)

\* C10, as claimed: when the apply handler triggers the restart, both files
\* already hold the new values.
C10_PersistedBeforeRestart ==
    pc["apply"] \in {"r1", "r2", "r3"} =>
        /\ config_pickle = conf["apply"]
        /\ ui_config_pickle = ui_conf

\* C10, amended: the apply handler disables its button, builds the
\* Configuration, restarts the engine, and only then writes config.pickle,
\* then ui_config.pickle, then enables the button again: while the restart
\* runs nothing has been written, and config.pickle holds the new
\* Configuration once it is written.
C10_RestartBeforePersist ==
    /\ IsPrefix(apply_steps, ApplyOrder)
    /\ pc["apply"] # "idle" <=> ~f_conf_apply
    /\ pc["apply"] = "idle" => apply_steps = ApplyOrder
    /\ pc["apply"] \in {"r1", "r2", "r3"} => apply_steps = <<"disable", "build">>
    /\ pc["apply"] = "w1" => apply_steps = <<"disable", "build", "restart">>
    /\ pc["apply"] = "w2" =>
          /\ apply_steps = <<"disable", "build", "restart", "config.pickle">>
          /\ config_pickle = conf["apply"]

\* the restart of an apply is under way and config.pickle still holds the
\* Configuration of before
C10_Witness ==
    /\ pc["apply"] = "r3"
    /\ config_pickle # conf["apply"]
    /\ engines[_app].conf = conf["apply"]

-----------------------------------------------------------------------------
(* Claims on playback, checked under SpecPlay *)

\* the playback tasks that hold the audio-suppress lock of engine e
Holders(e) ==
    {w \in Workers : pb_pc[w] \in {"locked", "playing", "finally"} /\ app[w] = e}

\* C11: at most one playback task executes at any time; the requests are
\* taken in the order of their submission, the waiting ones stay queued in
\* that order, and no two playbacks hold an audio-suppress lock together.
C11_OnePlayback ==
    /\ Cardinality({w \in Workers : pb_pc[w] # "idle"}) <= 1
    /\ pb_started = [i \in 1..Len(pb_started) |-> i]
    /\ \A i \in 1..Len(pb_queue) : pb_queue[i].id = Len(pb_started) + i
    /\ \A e, f \in EngineIds :
          e # f => engines[e].suppress + engines[f].suppress <= 1
    /\ \A e \in EngineIds : engines[e].suppress <= 1

\* the first request plays while the second waits in the queue
C11_Witness ==
    /\ \E w \in Workers : pb_pc[w] = "playing" /\ pb_task[w].id = 1
    /\ Len(pb_queue) = 1
    /\ pb_queue[1].id = 2

\* C12: each engine instance has one more lock call than unlock calls for
\* each playback task that holds its lock, and as many when none does: the
\* unlock of a task goes to the instance the task locked, also after a
\* restart replaced that instance and after sd.play raised.
C12_PairedUnlock ==
    \A e \in EngineIds :
        /\ engines[e].lock_calls - engines[e].unlock_calls = Cardinality(Holders(e))
        /\ engines[e].suppress = Cardinality(Holders(e))

\* sd.play raised, the engine was restarted since the lock, and the unlock
\* is due
C12_Witness ==
    \E w \in Workers :
        /\ pb_pc[w] = "finally"
        /\ pb_task[w].kind = "play error"
        /\ app[w] # _app
        /\ engines[app[w]].lock_calls = 1

\* C13: while a clip is played no engine captures.
C13_NoCaptureWhilePlaying ==
    (\E w \in Workers : pb_pc[w] = "playing") =>
        \A e \in EngineIds : ~Capturing(e)

-----------------------------------------------------------------------------
(* Claims on display merging, checked under SpecMerge *)

\* C16: a sentence is merged into the last entry of the output exactly when
\* its person_id is not -1, equals that entry's person_id, and starts less
\* than 10 seconds after that entry's end; a merge joins the texts with one
\* space, sets the entry's end to the sentence's end and leaves its start;
\* any other sentence becomes a new entry equal to itself.
C16_MergeStep ==
    m_i' = m_i + 1 =>
        LET s_ == m_input[m_i]
            n == Len(ret)
            joins == /\ n > 0
                     /\ s_.person_id # -1
                     /\ ret[n].val.person_id = s_.person_id
                     /\ s_.tm0 - ret[n].val.tm1 < 10
        IN  /\ \A k \in 1..(n - 1) : ret'[k] = ret[k]
            /\ IF joins
               THEN /\ Len(ret') = n
                    /\ ret'[n].val.text = ret[n].val.text \o " " \o s_.text
                    /\ ret'[n].val.tm1 = s_.tm1
                    /\ ret'[n].val.tm0 = ret[n].val.tm0
                    /\ ret'[n].val.person_id = ret[n].val.person_id
               ELSE /\ Len(ret') = n + 1
                    /\ n > 0 => ret'[n] = ret[n]
                    /\ ret'[n + 1].val = s_

\* an entry of person_id -1 is one sentence, never a merge
C16_UnknownAlone ==
    \A k \in 1..Len(ret) :
        ret[k].val.person_id = -1 => ret[k].val.text \in {"t1", "t2", "t3"}

C16_Merge == []C16_UnknownAlone /\ [][C16_MergeStep]_vars

\* three sentences of one person: the second, 9 seconds after the first, was
\* merged; the third, exactly 10 seconds after the second, was not
C16_Witness ==
    /\ m_i = 4
    /\ Len(ret) = 2
    /\ ret[1].val.text = "t1 t2"
    /\ ret[1].val.tm1 = m_input[2].tm1
    /\ ret[2].val.text = "t3"
    /\ ret[2].val.person_id = ret[1].val.person_id
    /\ m_input[3].tm0 - m_input[2].tm1 = 10

\* C17: the stored sentences are never changed by _merge_sentences, however
\* often the list is rendered.
C17_StoredUnchanged == m_sentences = m_input

\* the second rendering has merged two sentences and their audio files
C17_Witness ==
    /\ m_round = 2
    /\ m_i > Len(m_sentences)
    /\ Len(m_sentences) = 2
    /\ Len(ret) = 1
    /\ ret[1].val.prop = PropWithFiles(<<"a.wav", "a.wav">>)

-----------------------------------------------------------------------------
(* Claims on the person registry, checked under SpecPersons *)

\* C18: a call of the rename action calls the engine's rename, once, with the
\* id the selection names and the new name, exactly when the new name is not
\* empty and the selection ends in "(ID:N)" with N a registered id; any other
\* call makes no call of the engine and leaves the registry as it is.
C18_RenameStep ==
    rn_calls' = rn_calls + 1 =>
        LET id == f_person_selector'.names
            resolves == /\ ~f_person_selector'.is_none
                        /\ id \in DOMAIN persons
        IN  IF f_person_new_name' # "" /\ resolves
            THEN /\ rename_log' = Append(rename_log, <<id, f_person_new_name'>>)
                 /\ persons'[id].name = f_person_new_name'
                 /\ ~persons'[id].is_default
                 /\ \A q \in DOMAIN persons \ {id} : persons'[q] = persons[q]
            ELSE /\ rename_log' = rename_log
                 /\ persons' = persons

C18_Rename == [][C18_RenameStep]_vars

\* person 12 was renamed, then a call with an empty new name and one with a
\* selection of an id that is not registered changed nothing
C18_Witness ==
    /\ rn_calls = 3
    /\ rename_log = << <<12, "Bob">> >>
    /\ persons[12] = Person("Bob", FALSE)
    /\ f_person_selector.names = 7
    /\ f_person_new_name = "Ann"

-----------------------------------------------------------------------------
(* Claims on startup, checked under SpecStart *)

\* C19: startup does not fail, whether config.pickle and ui_config.pickle are
\* missing, valid or invalid; and once the program runs, a file that is
\* missing or invalid has given the all-defaults record.
C19_LoadFallsBack ==
    /\ boot # "failed"
    /\ boot = "running" =>
          /\ config_pickle \in {NoFile, Invalid} =>
                engines[_app].conf = DefaultConf
          /\ ui_config_pickle \in {NoFile, Invalid} => _ui_conf = DefaultUiConf

\* C28: a persisted configuration file has been read only once crash
\* recovery has run over the data directory: this holds of config.pickle and
\* of ui_config.pickle.
C28_RecoveryBeforeLoads ==
    boot \in {"main", "app_main"} => _ui_conf = NoConf /\ _conf = NoConf

-----------------------------------------------------------------------------
(* Claims on rendering, checked under SpecRender *)

\* C20, as claimed: a chunk neither qualified nor in the qualify-error state
\* shows its raw sentences only; a chunk in the qualify-error state shows the
\* error label beside its sentences; a chunk with a qualified result shows
\* the summary and the action items of that result.
C20_ThreeCases ==
    \A k \in 1..Len(rows) :
        LET g == reader[k]
            r == rows[k]
        IN  /\ (~g.qualified.set /\ g.state # SENTENCE_QUALIFY_ERROR) =>
                  /\ ~r.error_label
                  /\ ~r.summary.shown
                  /\ r.sentences = g.sentences
            /\ g.state = SENTENCE_QUALIFY_ERROR =>
                  /\ r.error_label
                  /\ r.sentences = g.sentences
            /\ g.qualified.set =>
                  /\ r.summary.shown
                  /\ r.summary.text = g.qualified.summaries
                  /\ r.summary.action_items = g.qualified.action_items

\* C20, amended: four cases.  Not qualified and not in error: the raw
\* sentences only, over both columns.  Not qualified and in error: the error
\* label and the raw sentences.  Qualified and not in error: the summary with
\* its action items and the sentences of the qualified result.  Qualified and
\* in error: the error label in the place of the summary, and the sentences of
\* the qualified result.
C20_FourCases ==
    \A k \in 1..Len(rows) :
        LET g == reader[k]
            r == rows[k]
            in_error == g.state = SENTENCE_QUALIFY_ERROR
        IN  /\ (~g.qualified.set /\ ~in_error) =>
                  /\ ~r.error_label /\ ~r.summary.shown /\ r.colspan
                  /\ r.sentences = g.sentences
            /\ (~g.qualified.set /\ in_error) =>
                  /\ r.error_label /\ ~r.summary.shown /\ ~r.colspan
                  /\ r.sentences = g.sentences
            /\ (g.qualified.set /\ ~in_error) =>
                  /\ ~r.error_label /\ r.summary.shown /\ ~r.colspan
                  /\ r.summary.text = g.qualified.summaries
                  /\ r.summary.action_items = g.qualified.action_items
                  /\ r.sentences = g.qualified.corrected_sentences
            /\ (g.qualified.set /\ in_error) =>
                  /\ r.error_label /\ ~r.summary.shown /\ ~r.colspan
                  /\ r.sentences = g.qualified.corrected_sentences

\* a chunk that has a qualified result with action items and is in the
\* qualify-error state has been rendered
C20_Witness ==
    /\ Len(rows) = 2
    /\ reader[2].qualified.set
    /\ reader[2].qualified.action_items # <<>>
    /\ reader[2].state = SENTENCE_QUALIFY_ERROR
    /\ rows[2].error_label
    /\ rows[2].last_row

-----------------------------------------------------------------------------
(* Further claims on qualify(), checked under SpecLLM *)

\* the step is the return of a completion
CompletionReturned ==
    /\ api_calls' = api_calls + 1
    /\ failures' = failures
    /\ auth_at' = auth_at

\* a completion whose finish reason is not "stop" ends the call with the
\* finish error at once: no content attempt is counted, nothing is slept
C24_FinishStep ==
    (CompletionReturned /\ finish_reason' # "stop") =>
        /\ qpc' = "raised"
        /\ error'.what = "finish"
        /\ attempt' = attempt
        /\ slept_total' = slept_total
        /\ result' = result

\* once raised, no further API call is made
C24_NoCallAfter ==
    qpc = "raised" => api_calls' = api_calls

\* C24: a completion with a finish reason other than "stop" fails the call
\* with a hard error at once; it is not counted as a content-validation
\* failure, no API call follows it even if content attempts remain, and the
\* transport retry does not apply to it.
C24_FinishIsHardError ==
    /\ [][C24_FinishStep]_vars
    /\ [][C24_NoCallAfter]_vars
    /\ [](finish_reason \notin {"", "stop"} =>
            qpc = "raised" /\ error.what = "finish")

\* the first completion of a validated request had a bad finish reason, with
\* two content attempts and two transport tries left
C24_Witness ==
    /\ qpc = "raised"
    /\ error.what = "finish"
    /\ finish_reason = "length"
    /\ post_process = "points"
    /\ attempt = 1
    /\ try_count = 1
    /\ req_calls = 1

\* pass 1 is left for pass 2 only by a completion that finished with "stop"
\* and validated, or with no call at all when there are no sentences; what
\* it leaves is the response, or the sentences parsed from the response
C25_Pass1Step ==
    (qpc # "pass2" /\ qpc' = "pass2") =>
        /\ pass' = 1
        /\ error' = NoError
        /\ \/ qpc = "start" /\ sentences = <<>> /\ corrected'.val = <<>>
              /\ api_calls' = api_calls
           \/ /\ qpc = "invoke"
              /\ CompletionReturned
              /\ finish_reason' = "stop"
              /\ IF has_embedding(sentences)
                 THEN /\ corrected'.is_list
                      /\ FindallNameText(r0', "") # <<>>
                      /\ corrected'.val =
                            CorrectedSentences(sentences, FindallNameText(r0', ""))
                 ELSE /\ ~corrected'.is_list
                      /\ corrected'.val = r0'

\* pass 2 begins only from there, and its user text is what pass 1 left, a
\* list written as "name: text" lines
C25_Pass2Step ==
    (pass # 2 /\ pass' = 2) =>
        /\ qpc = "pass2"
        /\ corrected' = corrected
        /\ api_calls' = api_calls
        /\ corrected.val # <<>> =>
              /\ Len(messages') = 2
              /\ messages'[2].content.s =
                    IF corrected.is_list
                    THEN [i \in 1..Len(corrected.val) |->
                            Seg(_get_name(corrected.val[i]), corrected.val[i].text)]
                    ELSE corrected.val

\* an API call of pass 2 is a call of a request that pass 2 began, and a
\* pass 1 that has failed or fallen back is followed by nothing
C25_CallStep ==
    /\ (api_calls' = api_calls + 1 /\ messages[1].content.s = _qualify_p1_system)
          => pass = 2
    /\ (pass = 1 /\ qpc \in {"raised", "returned"}) =>
          pass' = 1 /\ api_calls' = api_calls

\* C25: the two passes of qualify() are sequential: no pass-2 API call before
\* pass 1 has returned successfully, the pass-2 input is the pass-1 output,
\* and no pass-2 call at all when pass 1 fails.
C25_Sequential ==
    /\ [][C25_Pass1Step]_vars
    /\ [][C25_Pass2Step]_vars
    /\ [][C25_CallStep]_vars
    /\ []((messages # <<>> /\ messages[1].content.s = _qualify_p1_system)
             => pass = 2)

\* a pass-2 call is under way on the sentences pass 1 gave
C25_Witness ==
    /\ pass = 2
    /\ qpc = "invoke"
    /\ corrected.is_list
    /\ Len(corrected.val) = 3
    /\ api_calls = 2
    /\ messages[2].content.s = NameTextLines(corrected.val)

-----------------------------------------------------------------------------
(* Claims on qualify(), checked under SpecLLMFair *)

\* the call has ended
Terminated == qpc \in {"returned", "raised"}

\* how a call that has ended has ended: with a result and no exception, the
\* result being the fallback exactly when an authentication error was met, or
\* with an exception and no result
C26_Outcome ==
    /\ qpc = "returned" =>
          /\ result.set
          /\ error = NoError
          /\ auth_at # 0 <=> result.summaries = AuthErrorText
    /\ qpc = "raised" =>
          /\ ~result.set
          /\ error # NoError
          /\ auth_at = 0
    /\ ~Terminated => ~result.set /\ error = NoError

\* C26: every call of qualify() ends, whatever the API answers, in one of
\* three ways: a normal QualifiedResult, a propagated failure or the
\* authentication fallback; and it makes at most 18 API calls.
C26_Terminates ==
    /\ <>Terminated
    /\ [](api_calls <= 18)
    /\ []C26_Outcome

\* a call that returned normally after 18 API calls
C26_Witness ==
    /\ qpc = "returned"
    /\ api_calls = 18
    /\ auth_at = 0
    /\ result.set

-----------------------------------------------------------------------------
(* Claims on token accounting, checked under SpecTokens *)

\* what the accounting rule gives one message: the overhead, the token
\* lengths of its field values, and the extra of a name field
PerMessage(m, overhead, name_extra) ==
    overhead + m.role.n + m.content.n
        + (IF "name" \in DOMAIN m THEN m.name.n + name_extra ELSE 0)

ExpectedTotal(msgs, overhead, name_extra) ==
    3 + SumSeq([i \in 1..Len(msgs) |-> PerMessage(msgs[i], overhead, name_extra)])

\* the rule of the accounting: 3 + 1 per message and name for the modern chat
\* models, 4 - 1 for gpt-3.5-turbo-0301; any other name that holds
\* "gpt-3.5-turbo" or "gpt-4" counts as the modern models do; every other
\* name fails with NotImplementedError
C22_Accounting ==
    tk_out.done =>
        IF tk_model \in ModernModels
        THEN tk_out.ok /\ tk_out.n = ExpectedTotal(tk_messages, 3, 1)
        ELSE IF tk_model = gpt_35_turbo_0301
        THEN tk_out.ok /\ tk_out.n = ExpectedTotal(tk_messages, 4, -1)
        ELSE IF Contains(<<"g", "p", "t", "-", "3", ".", "5", "-", "t", "u", "r", "b", "o">>, tk_model) \/ Contains(<<"g", "p", "t", "-", "4">>, tk_model)
        THEN tk_out.ok /\ tk_out.n = ExpectedTotal(tk_messages, 3, 1)
        ELSE ~tk_out.ok

\* a request of one message, with a role and an empty content, for gpt-4-0613
OneEmptyMessage ==
    /\ tk_out.done
    /\ tk_model = gpt_4_0613
    /\ Len(tk_messages) = 1
    /\ DOMAIN tk_messages[1] = {"role", "content"}
    /\ tk_messages[1].content.n = 0

\* C22, as claimed: the accounting rule, and one message with empty content
\* for gpt-4-0613 counts exactly 6.
C22_CountsSix ==
    /\ C22_Accounting
    /\ OneEmptyMessage => tk_out.n = 6

\* C22, amended: the accounting rule, and one message with empty content for
\* gpt-4-0613 counts 6 and the token length of its role value.
C22_CountsSixAndRole ==
    /\ C22_Accounting
    /\ OneEmptyMessage => tk_out.n = 6 + tk_messages[1].role.n

\* one message {"role": ..., "content": ""} whose role is one token was
\* counted for gpt-4-0613: 7
C22_Witness ==
    /\ OneEmptyMessage
    /\ tk_messages[1].role.n = 1
    /\ tk_out.ok
    /\ tk_out.n = 7

-----------------------------------------------------------------------------
(* Claims on the persisted configuration, checked under Spec *)

\* C27: when no handler is under way, the configuration the current engine
\* was constructed from is the one config.pickle holds (the all-defaults
\* record when there is no file).
C27_EngineRunsPersisted ==
    (\A t \in Handlers : pc[t] = "idle") =>
        engines[_app].conf = _load_configuration

-----------------------------------------------------------------------------
(* Claims on the apply button, checked under SpecApply *)

\* C21: the apply button is disabled from the start of an apply to its end,
\* and once the apply has ended the button is enabled again, also when the
\* building of the configuration, the restart or a file write failed.
C21_DisabledWhileApplying ==
    /\ pc["apply"] # "idle" => ~f_conf_apply
    /\ pc["apply"] = "idle" => f_conf_apply

-----------------------------------------------------------------------------
(* Claims on the interleaving of polls, checker and restarts, checked under *)
(* SpecRace                                                                 *)

\* C23: a thread that is about to call open() inside the mutex finds the
\* current engine closed, and the checker about to call close() inside the
\* mutex finds it open: the test made before the mutex was taken still holds.
C23_TestStillTrue ==
    /\ \A p \in Pollers : pc[p] = "k3" => ~is_opened(_app)
    /\ pc["checker"] = "c3" => is_opened(_app)

\* C30: an engine that is open is the current one, so at most one engine is
\* open at any time and no engine that a restart replaced holds the devices.
C30_OnlyCurrentOpen ==
    /\ \A e \in EngineIds : engines[e].opened => e = _app
    /\ Cardinality({e \in EngineIds : engines[e].opened}) <= 1

\* a restart has put a new instance in the place of the first one while
\* another poll had just found the engine open or opened it: no engine is
\* open now
C30_Witness ==
    \E p, q \in Pollers :
        /\ p # q
        /\ pc[p] = "r3"
        /\ pc[q] = "ret"
        /\ _last_called = now
        /\ _app # "e1"
        /\ \A e \in EngineIds : ~engines[e].opened

-----------------------------------------------------------------------------
(* Claims on abandoned playback requests, checked under SpecPlayPoll *)

\* a worker takes a request with a file that does not open: the worker is
\* free again at once, no engine is touched, no handler is disturbed
C29_AbandonStep ==
    (pb_queue # <<>> /\ Head(pb_queue).kind = "bad file"
        /\ pb_queue' = Tail(pb_queue)) =>
        /\ pb_pc' = pb_pc
        /\ pb_task' = pb_task
        /\ app' = app
        /\ engines' = engines
        /\ pc' = pc

\* the audio-suppress lock is taken by a task whose files all opened
C29_LockStep ==
    \A e \in EngineIds :
        engines'[e].lock_calls > engines[e].lock_calls =>
            \E w \in Workers :
                /\ pb_pc[w] = "read"
                /\ pb_task[w].kind \in {"ok", "play error"}

\* C29: a request with a file that does not open is abandoned whole: it never
\* takes the audio-suppress lock, nothing of it is played, the requester sees
\* no error, and the worker stays free for the requests that follow.
C29_Abandoned ==
    /\ [][C29_AbandonStep]_vars
    /\ [][C29_LockStep]_vars
    /\ [](\A w \in Workers :
            /\ pb_task[w].kind # "bad file"
            /\ pb_pc[w] # "idle" => pb_task[w].kind \in {"ok", "play error"})

\* no poll has run, so no engine was replaced; two requests were taken and
\* the second one plays, holding the only lock that was ever taken: the
\* first one was abandoned
C29_Witness ==
    /\ _last_called = 0
    /\ \A p \in Pollers : pc[p] = "idle"
    /\ pb_started = <<1, 2>>
    /\ \E w \in Workers : pb_pc[w] = "playing" /\ pb_task[w].id = 2
    /\ engines[_app].lock_calls = 1
    /\ engines[_app].unlock_calls = 0

-----------------------------------------------------------------------------
(* The credential of the LLM client after an apply; checked under Spec *)

\* C31: whenever no apply is under way, the credential used by the LLM
\* client (openai.api_key) equals the openai_api_key of the current
\* UiConfiguration, so that a key entered on the configuration screen is in
\* force for the qualifications that follow
C31_KeyInForce ==
    pc["apply"] = "idle" => api_key = openai_api_key(_ui_conf)

-----------------------------------------------------------------------------
(* Pass 1 with embeddings; checked under SpecCorrect *)

\* the ids of the known speakers of the chunk that carry the name
KnownIds(name) ==
    { sentences[i].person_id :
        i \in { j \in 1..Len(sentences) :
                   /\ sentences[j].person_id # -1
                   /\ sentences[j].person_name = name } }

\* the call of pass 1 goes the with-embeddings way exactly when a sentence
\* carries an embedding
C32_PathStep ==
    (qpc = "start" /\ pass' = 1 /\ Len(messages') = 2) =>
        /\ (post_process' = "names") <=>
              (\E i \in 1..Len(sentences) : sentences[i].embedding)
        /\ messages'[2].content.s =
              IF \E i \in 1..Len(sentences) : sentences[i].embedding
              THEN [i \in 1..Len(sentences) |->
                      Seg(IF sentences[i].person_id # -1
                          THEN sentences[i].person_name
                          ELSE UnknownPersonName, sentences[i].text)]
              ELSE [i \in 1..Len(sentences) |-> Seg("", sentences[i].text)]

\* the step that ends pass 1: one sentence per parsed line
C32_ResultStep ==
    (pass = 1 /\ qpc = "invoke" /\ qpc' = "pass2") =>
        IF \E i \in 1..Len(sentences) : sentences[i].embedding
        THEN LET parsed == FindallNameText(r0', "")
                 out == corrected'.val
             IN  /\ corrected'.is_list
                 /\ Len(out) = Len(parsed)
                 /\ \A k \in 1..Len(out) :
                       /\ out[k].tm0 = sentences[1].tm0
                       /\ out[k].tm1 = sentences[Len(sentences)].tm1
                       /\ out[k].person_name = parsed[k][1]
                       /\ out[k].text = parsed[k][2]
                       /\ IF KnownIds(parsed[k][1]) = {}
                          THEN out[k].person_id = -1
                          ELSE out[k].person_id \in KnownIds(parsed[k][1])
        ELSE ~corrected'.is_list

\* C32: pass 1 takes the with-embeddings path exactly when a sentence of the
\* chunk carries an embedding; on that path every parsed "name: content" line
\* becomes one sentence with the first original tm0, the last original tm1
\* and the id of a known speaker of the chunk with exactly that name, or -1
\* when there is none; a speaker whose person_id is -1 gives no mapping.
C32_WithEmbeddings == [][C32_PathStep /\ C32_ResultStep]_vars

\* pass 1 has returned sentences, one attributed to a known speaker and one
\* to nobody, on a chunk that has an unknown speaker after a known one
C32_Witness ==
    /\ qpc = "pass2"
    /\ corrected.is_list
    /\ Len(sentences) = 2
    /\ sentences[1].person_id # -1
    /\ sentences[2].person_id = -1
    /\ \E k, j \in 1..Len(corrected.val) :
          /\ corrected.val[k].person_id # -1
          /\ corrected.val[j].person_id = -1
          /\ corrected.val[j].person_name = UnknownPersonName

-----------------------------------------------------------------------------
(* Nothing to correct, nothing to summarize; checked under SpecLLM *)

\* an empty chunk: no API call, and the result has an empty summary string
\* and no action items
C33_EmptyChunk ==
    Len(sentences) = 0 =>
        /\ api_calls = 0
        /\ qpc \in {"start", "pass2", "returned"}
        /\ qpc = "returned" =>
              /\ result.set
              /\ result.corrected_sentences = sentences
              /\ result.summaries = ""
              /\ result.action_items = <<>>

\* pass 1 gave the empty string on the no-embeddings path: pass 2 is over
\* without a call, the summary is the empty string
C33_EmptyCorrection ==
    (pass = 2 /\ ~corrected.is_list /\ corrected.val = <<>>) =>
        /\ qpc = "returned"
        /\ error = NoError
        /\ result.set
        /\ result.summaries = ""
        /\ result.action_items = <<>>

\* the step into pass 2 makes no API call when there is nothing to summarize
C33_Pass2Step ==
    (qpc = "pass2" /\ pass' = 2 /\ ~corrected.is_list /\ corrected.val = <<>>) =>
        /\ qpc' = "returned"
        /\ api_calls' = api_calls
        /\ req_calls' = req_calls

\* C33: qualify() on an empty sentence list makes no API call and returns an
\* empty summary string and an empty action-item list; and when pass 1 on the
\* no-embeddings path returns the empty string, pass 2 makes no API call and
\* the summary is the empty string.
C33_NothingToSummarize ==
    /\ [](C33_EmptyChunk /\ C33_EmptyCorrection)
    /\ [][C33_Pass2Step]_vars

\* the API answered pass 1 of a chunk that has sentences with the empty
\* string, and qualify() has returned after that one call
C33_Witness ==
    /\ Len(sentences) # 0
    /\ qpc = "returned"
    /\ pass = 2
    /\ ~corrected.is_list
    /\ corrected.val = <<>>
    /\ api_calls >= 1
    /\ auth_at = 0
    /\ result.summaries = ""

\* qualify() has returned on an empty chunk
C33_WitnessEmpty ==
    /\ Len(sentences) = 0
    /\ qpc = "returned"
    /\ result.set

-----------------------------------------------------------------------------
(* _merge_sentences on its own output; checked under SpecRemerge *)

\* " ".join of the texts of a list
RECURSIVE JoinedText(_)
JoinedText(ss) ==
    IF Len(ss) = 0 THEN ""
    ELSE IF Len(ss) = 1 THEN ss[1].text
    ELSE JoinedText(SubSeq(ss, 1, Len(ss) - 1)) \o " " \o ss[Len(ss)].text

\* two adjacent entries that the condition of the merge would still join
StillMerges(a, b) ==
    /\ b.person_id # -1
    /\ a.person_id = b.person_id
    /\ a.tm1 + 10 > b.tm0

\* C34: display merging is idempotent and order-preserving: a call of
\* _merge_sentences on its own output returns that output unchanged, no two
\* adjacent entries of an output still satisfy the merge condition, an output
\* has no more entries than its input, and the space-joined texts of the
\* output equal those of the input, in the same order.
C34_Idempotent ==
    m_i > Len(m_sentences) =>
        /\ Len(ret) <= Len(m_input)
        /\ JoinedText(Returned(ret)) = JoinedText(m_input)
        /\ \A k \in 1..(Len(ret) - 1) : ~StillMerges(ret[k].val, ret[k + 1].val)
        /\ m_round = 2 => Returned(ret) = m_input

\* the second call has returned on an output of two entries that the first
\* call made of three sentences
C34_Witness ==
    /\ m_round = 2
    /\ m_i > Len(m_sentences)
    /\ Len(ret) = 2
    /\ \E k \in 1..2 : ret[k].val.text \in {"t1 t2", "t2 t3"}

-----------------------------------------------------------------------------
(* The person selector; checked under SpecSelector *)

\* the text ends in "(ID:<digits>)"
EndsInId(chars) ==
    LET n == Len(chars) IN
    /\ n >= 6
    /\ chars[n] = ")"
    /\ \E k \in 1..(n - 5) :
          /\ SubSeq(chars, k, k + 3) = <<"(", "I", "D", ":">>
          /\ \A j \in (k + 4)..(n - 1) : chars[j] \in Digits

\* the round trip alone: the text _get_person gives for a person of the
\* registry resolves to that person
C35_RoundTrip ==
    resolved.called =>
        \A p \in DOMAIN persons :
            (~f_person_selector.is_none /\ f_person_selector.chars = _get_person(p))
                => resolved.person_id = p

\* C35: _resolve_person(_get_person(p)) is the registry entry of p's
\* person_id, whatever p's name; and _resolve_person returns no person for
\* None and for every text that does not end in "(ID:<digits>)".
C35_SelectorRoundTrip ==
    /\ C35_RoundTrip
    /\ resolved.called =>
          ((f_person_selector.is_none \/ ~EndsInId(f_person_selector.chars))
              => resolved.person_id = NoPerson)

=============================================================================
